---- MODULE Spec2Model ----
(***************************************************************************)
(* Verification model of the latex-to-word math pipeline:                  *)
(*   - parseLatexToDocx  (LaTeX string -> docx math components)            *)
(*   - OmmlVisitor       (MathJax MmlNode tree -> OMML markup string)      *)
(*   - seqToComponents   (MathML element tree -> docx math components)     *)
(* Strings are sequences of one-character strings; a cursor is 0-based as  *)
(* in the source.                                                          *)
(***************************************************************************)
EXTENDS Integers, Sequences, FiniteSets, TLC

\* state of one call of parseLatexToDocx
VARIABLES latex, cursor, results, finalResults, i, pc
\* state of one call of OmmlVisitor.visitTree
VARIABLES mml, markup, vpc
\* state of one call of seqToComponents
VARIABLES nodes, idx, out, ipc
\* state of one call of createDocxFromMarkdown, and its environment: which
\* generation of the generator runs and the fragments the renderer throws on
VARIABLES ast, generator, throwsOn, docChildren, blockIdx, dpc
\* the closures of two calls of parseLatexToDocx whose steps interleave
VARIABLES calls
\* state of one call of mathmlToDocx
VARIABLES mathml, mapped, mpc
\* state of one call of normalizeLatex
VARIABLES rawText, normalized, npc
\* state of the Converter component: the text area, the isExporting state
\* and the calls of handleExport that have not reached the end of finally
VARIABLES input, isExporting, inFlight, clicks

parserVars == <<latex, cursor, results, finalResults, i, pc>>
visitorVars == <<mml, markup, vpc>>
ingestVars == <<nodes, idx, out, ipc>>
docVars == <<ast, generator, throwsOn, docChildren, blockIdx, dpc>>
callVars == <<calls>>
mapperVars == <<mathml, mapped, mpc>>
normalizeVars == <<rawText, normalized, npc>>
converterVars == <<input, isExporting, inFlight, clicks>>
pageVars == <<mapperVars, normalizeVars, converterVars>>
vars == <<parserVars, visitorVars, ingestVars, docVars, callVars, pageVars>>

\* everything but the state of the call named
exceptParser == <<visitorVars, ingestVars, docVars, callVars, pageVars>>
exceptVisitor == <<parserVars, ingestVars, docVars, callVars, pageVars>>
exceptIngest == <<parserVars, visitorVars, docVars, callVars, pageVars>>
exceptDoc == <<parserVars, visitorVars, ingestVars, callVars, pageVars>>
exceptCalls == <<parserVars, visitorVars, ingestVars, docVars, pageVars>>
exceptPage == <<parserVars, visitorVars, ingestVars, docVars, callVars>>

\* ------------------------------------------------------------------------
\* Bounds
\* ------------------------------------------------------------------------
MaxTok == 3
MaxArg == 2
MaxNodes == 4
MaxSibs == 3

\* ------------------------------------------------------------------------
\* Characters and strings
\* ------------------------------------------------------------------------
Letters ==
  {"a", "b", "c", "d", "e", "f", "g", "h", "i", "j", "k", "l", "m", "n", "o",
   "p", "q", "r", "s", "t", "u", "v", "w", "x", "y", "z"}

IsLetter(ch) == ch \in Letters

IsSpace(ch) == ch = " "

\* latex[cursor]: reading past the end of a JS string gives undefined
At(s, c) == IF c >= 0 /\ c < Len(s) THEN s[c + 1] ELSE "undefined"

\* latex.slice(a, b)
slice(s, a, b) ==
  LET lo == IF a < Len(s) THEN a ELSE Len(s)
      hi == IF b < Len(s) THEN b ELSE Len(s)
  IN  IF hi <= lo THEN <<>> ELSE SubSeq(s, lo + 1, hi)

FRAC == <<"\\", "f", "r", "a", "c">>
SQRT == <<"\\", "s", "q", "r", "t">>
SUM == <<"\\", "s", "u", "m">>
INT == <<"\\", "i", "n", "t">>
FOO == <<"\\", "f", "o", "o">>

\* the command names latexToWordLinear compares with
LEFT == <<"\\", "l", "e", "f", "t">>
RIGHT == <<"\\", "r", "i", "g", "h", "t">>
TEXT == <<"\\", "t", "e", "x", "t">>
DISPLAYSTYLE ==
  <<"\\", "d", "i", "s", "p", "l", "a", "y", "s", "t", "y", "l", "e">>
LIMITS == <<"\\", "l", "i", "m", "i", "t", "s">>
NOLIMITS == <<"\\", "n", "o", "l", "i", "m", "i", "t", "s">>

\* ------------------------------------------------------------------------
\* docx math components and the parser's pending-script markers
\* ------------------------------------------------------------------------
\* the value of an absent property / of pop() on an empty array
Undefined == [class |-> "undefined"]

MathRun(text) == [class |-> "MathRun", text |-> text]

MathFraction(num, den) ==
  [class |-> "MathFraction", numerator |-> num, denominator |-> den]

MathRadical(body) == [class |-> "MathRadical", children |-> body]

MathRadicalDeg(degree, body) ==
  [class |-> "MathRadical", children |-> body, degree |-> degree]

MathSum(children) == [class |-> "MathSum", children |-> children]

MathIntegral(children) == [class |-> "MathIntegral", children |-> children]

MathSuperScript(children, superScript) ==
  [class |-> "MathSuperScript", children |-> children,
   superScript |-> superScript]

MathSubScript(children, subScript) ==
  [class |-> "MathSubScript", children |-> children, subScript |-> subScript]

\* { type: "sup" | "sub", children }
Marker(type, children) == [type |-> type, children |-> children]

\* curr.type: docx components carry no `type` property
typeOf(n) == IF "type" \in DOMAIN n THEN n.type ELSE "undefined"

\* ------------------------------------------------------------------------
\* parseLatexToDocx: the recursive-descent helpers.  Each returns the
\* nodes it produced and the cursor it leaves behind.
\* ------------------------------------------------------------------------
RECURSIVE skipWhitespace(_, _)
RECURSIVE scanLetters(_, _)
RECURSIVE parseNext(_, _)
RECURSIVE parseGroup(_, _)
RECURSIVE groupLoop(_, _, _)
RECURSIVE degreeLoop(_, _, _)

Ret(ns, c) == [nodes |-> ns, cursor |-> c]

skipWhitespace(s, c) ==
  IF c < Len(s) /\ IsSpace(At(s, c)) THEN skipWhitespace(s, c + 1) ELSE c

\* while (cursor < latex.length && /[a-zA-Z]/.test(latex[cursor])) cursor++
scanLetters(s, c) ==
  IF c < Len(s) /\ IsLetter(At(s, c)) THEN scanLetters(s, c + 1) ELSE c

\* while (cursor < latex.length && latex[cursor] !== "}") children.push(...parseNext())
groupLoop(s, c, children) ==
  IF c < Len(s) /\ At(s, c) # "}"
  THEN LET r == parseNext(s, c) IN groupLoop(s, r.cursor, children \o r.nodes)
  ELSE Ret(children, c)

\* while (cursor < latex.length && latex[cursor] !== "]") degree.push(...parseNext())
degreeLoop(s, c, degree) ==
  IF c < Len(s) /\ At(s, c) # "]"
  THEN LET r == parseNext(s, c) IN degreeLoop(s, r.cursor, degree \o r.nodes)
  ELSE Ret(degree, c)

parseGroup(s, c0) ==
  LET c == skipWhitespace(s, c0) IN
  IF c >= Len(s) THEN Ret(<<>>, c)
  ELSE IF At(s, c) = "{"
       THEN LET r == groupLoop(s, c + 1, <<>>) IN Ret(r.nodes, r.cursor + 1)
       ELSE parseNext(s, c)

\* command === "\\frac"
parseFrac(s, c) ==
  LET num == parseGroup(s, c)
      den == parseGroup(s, num.cursor)
  IN  Ret(<<MathFraction(num.nodes, den.nodes)>>, den.cursor)

\* command === "\\sqrt"
parseSqrt(s, c0) ==
  LET c == skipWhitespace(s, c0) IN
  IF At(s, c) = "["
  THEN LET d == degreeLoop(s, c + 1, <<>>)
           body == parseGroup(s, d.cursor + 1)
       IN  Ret(<<MathRadicalDeg(d.nodes, body.nodes)>>, body.cursor)
  ELSE LET body == parseGroup(s, c)
       IN  Ret(<<MathRadical(body.nodes)>>, body.cursor)

\* the generic branch keeping the command name without its backslash
parseGenericNoBackslash(command, c) == Ret(<<MathRun(Tail(command))>>, c)

\* the final else of the command dispatch: "Generic command, treat as text"
parseGeneric(command, c) == Ret(<<MathRun(command)>>, c)

\* char === "\\"
parseCommand(s, start) ==
  LET c == scanLetters(s, start + 1)
      command == slice(s, start, c)
  IN  IF command = FRAC THEN parseFrac(s, c)
      ELSE IF command = SQRT THEN parseSqrt(s, c)
      ELSE IF command = SUM THEN Ret(<<MathSum(<<>>)>>, c)
      ELSE IF command = INT THEN Ret(<<MathIntegral(<<>>)>>, c)
      ELSE parseGeneric(command, c)

\* char === "^" / char === "_"
parseScript(s, c, type) ==
  LET arg == parseGroup(s, c + 1) IN Ret(<<Marker(type, arg.nodes)>>, arg.cursor)

\* the brace branch leaving a closing brace at the start of the input
\* unconsumed
parseBraceStuckAtStart(s, c) ==
  IF At(s, c) = "{" THEN parseGroup(s, c)
  ELSE IF c = 0 THEN Ret(<<>>, c) ELSE Ret(<<>>, c + 1)

\* char === "{" || char === "}"
parseBrace(s, c) ==
  IF At(s, c) = "{" THEN parseGroup(s, c) ELSE Ret(<<>>, c + 1)

\* any other character
parseChar(s, c) == Ret(<<MathRun(<<At(s, c)>>)>>, c + 1)

parseNext(s, c0) ==
  LET c == skipWhitespace(s, c0) IN
  IF c >= Len(s) THEN Ret(<<>>, c)
  ELSE LET char == At(s, c) IN
       IF char = "\\" THEN parseCommand(s, c)
       ELSE IF char = "^" THEN parseScript(s, c, "sup")
       ELSE IF char = "_" THEN parseScript(s, c, "sub")
       ELSE IF char = "{" \/ char = "}" THEN parseBrace(s, c)
       ELSE parseChar(s, c)

\* ------------------------------------------------------------------------
\* The post-processing loop body (attach a script to the previous element)
\* ------------------------------------------------------------------------
\* finalResults.pop(): the popped value (undefined on an empty array)
popValue(arr) == IF Len(arr) = 0 THEN Undefined ELSE arr[Len(arr)]

popRest(arr) == IF Len(arr) = 0 THEN <<>> ELSE SubSeq(arr, 1, Len(arr) - 1)

\* if (!prev) finalResults.push(new MathRun(""))
pushEmptyBase(arr, prev) ==
  IF prev = Undefined THEN Append(arr, MathRun(<<>>)) ELSE arr

attachScript(arr, curr) ==
  LET prev == popValue(arr)
      rest == pushEmptyBase(popRest(arr), prev)
  IN  IF curr.type = "sup"
      THEN Append(rest, MathSuperScript(<<prev>>, curr.children))
      ELSE Append(rest, MathSubScript(<<prev>>, curr.children))

postProcessOne(arr, curr) ==
  IF typeOf(curr) = "sup" \/ typeOf(curr) = "sub"
  THEN attachScript(arr, curr)
  ELSE Append(arr, curr)

\* ------------------------------------------------------------------------
\* Inputs
\* ------------------------------------------------------------------------
RECURSIVE Concat(_)
Concat(ss) == IF Len(ss) = 0 THEN <<>> ELSE Head(ss) \o Concat(Tail(ss))

RECURSIVE TokSeqs(_, _)
\* all sequences of at most n tokens drawn from toks
TokSeqs(toks, n) ==
  IF n = 0 THEN {<<>>}
  ELSE LET shorter == TokSeqs(toks, n - 1)
       IN  shorter \cup {Append(q, t) : q \in shorter, t \in toks}

GenToks ==
  {FRAC, SQRT, FOO, <<"{">>, <<"}">>, <<"[">>, <<"]">>, <<"^">>, <<"x">>,
   <<" ">>}

\* every string of at most MaxTok tokens
GeneralInputs(n) == {Concat(q) : q \in TokSeqs(GenToks, n)}

\* the characters of s, scanned with a depth counter, never close more
\* braces than were opened and end at depth 0
RECURSIVE BraceDepth(_, _, _)
BraceDepth(s, k, depth) ==
  IF k > Len(s) THEN depth
  ELSE IF s[k] = "{" THEN BraceDepth(s, k + 1, depth + 1)
  ELSE IF s[k] = "}"
       THEN IF depth = 0 THEN -1 ELSE BraceDepth(s, k + 1, depth - 1)
  ELSE BraceDepth(s, k + 1, depth)

Balanced(s) == BraceDepth(s, 1, 0) = 0

ArgToks == {<<"x">>, <<"^">>, <<"{">>, <<"}">>}

\* contents of a brace group: balanced strings of at most MaxArg tokens
Args(n) == {s \in {Concat(q) : q \in TokSeqs(ArgToks, n)} : Balanced(s)}

\* contents of a bracketed degree
DegArgs(n) == {Concat(q) : q \in TokSeqs({<<"x">>, <<"^">>}, n)}

Braced(g) == <<"{">> \o g \o <<"}">>

Heads(n) ==
  {FOO, SQRT, SQRT \o <<" ">>, SQRT \o <<" ", "[", "2", "]">>}
    \cup {SQRT \o <<"[">> \o d \o <<"]">> : d \in DegArgs(n)}
    \cup {FRAC \o Braced(g) : g \in Args(n)}

Tails == {<<>>, <<"x">>}

\* a command followed by its brace-group arguments and a tail
CommandInputs(n) ==
  {h \o Braced(g) \o tl : h \in Heads(n), g \in Args(n), tl \in Tails}

ScriptArgs == {<<"2">>, <<"3">>}

\* b^s_t and b_t^s, and the leading bare scripts ^s and _s
ScriptInputs ==
  {<<"x", "^">> \o s \o <<"_">> \o t : s \in ScriptArgs, t \in ScriptArgs}
    \cup {<<"x", "_">> \o t \o <<"^">> \o s : s \in ScriptArgs, t \in ScriptArgs}
    \cup {<<"^">> \o s : s \in ScriptArgs}
    \cup {<<"_">> \o s : s \in ScriptArgs}

\* everyday fragments, among them the examples of the specification
SampleInputs ==
  {FRAC \o <<"{", "a", "}", "{", "b", "}">>,
   FRAC \o <<"{", "1", "}", "{", "2", "}">>,
   FRAC \o <<"{", "x", "^", "2", "}", "{", "2", "}">>,
   SQRT \o <<"[", "3", "]", "{", "x", "}">>,
   SQRT \o <<"[", "3", "]", "{", "x", "^", "2", "}">>,
   SQRT \o <<"{", "x", "^", "2", "}">>,
   FOO \o <<"{", "x", "}">>,
   SUM \o <<"_", "x", "^", "2">>,
   INT \o <<"x">>,
   DISPLAYSTYLE \o <<" ", "x">>,
   TEXT \o <<"{", "a", "b", "}">>,
   <<"x", "_", "2", " ", "\\", " ", "{", "x">>}

Inputs(nTok, nArg) ==
  GeneralInputs(nTok) \cup CommandInputs(nArg) \cup ScriptInputs \cup SampleInputs

\* ------------------------------------------------------------------------
\* parseLatexToDocx as a state machine
\* ------------------------------------------------------------------------
ParserStart ==
  /\ latex \in Inputs(MaxTok, MaxArg)
  /\ cursor = 0
  /\ results = <<>>
  /\ finalResults = <<>>
  /\ i = 0
  /\ pc = "parse"

\* no call of parseLatexToDocx is in progress
ParserIdle ==
  /\ latex = <<>>
  /\ cursor = 0
  /\ results = <<>>
  /\ finalResults = <<>>
  /\ i = 0
  /\ pc = "idle"

\* no call of visitTree is in progress
VisitorIdle == mml = Undefined /\ markup = <<>> /\ vpc = "idle"

\* no call of seqToComponents is in progress
IngestIdle == nodes = <<>> /\ idx = 0 /\ out = <<>> /\ ipc = "idle"

\* no call of createDocxFromMarkdown is in progress
DocIdle ==
  /\ ast = <<>>
  /\ generator = "none"
  /\ throwsOn = {}
  /\ docChildren = <<>>
  /\ blockIdx = 0
  /\ dpc = "idle"

\* no interleaved calls are in progress
CallsIdle == calls = <<>>

\* no call of mathmlToDocx is in progress
MapperIdle == mathml = <<>> /\ mapped = <<>> /\ mpc = "idle"

\* no call of normalizeLatex is in progress
NormalizeIdle == rawText = <<>> /\ normalized = <<>> /\ npc = "idle"

\* the Converter component is not mounted
ConverterIdle ==
  /\ input = <<>> /\ isExporting = FALSE /\ inFlight = <<>> /\ clicks = 0

PageIdle == MapperIdle /\ NormalizeIdle /\ ConverterIdle

Init == ParserStart /\ VisitorIdle /\ IngestIdle /\ DocIdle /\ CallsIdle /\ PageIdle

\* while (cursor < latex.length) results.push(...parseNext())
ParseStep ==
  /\ pc = "parse"
  /\ cursor < Len(latex)
  /\ LET r == parseNext(latex, cursor) IN
       /\ results' = results \o r.nodes
       /\ cursor' = r.cursor
  /\ UNCHANGED <<latex, finalResults, i, pc, exceptParser>>

ParseEnd ==
  /\ pc = "parse"
  /\ cursor >= Len(latex)
  /\ pc' = "post"
  /\ UNCHANGED <<latex, cursor, results, finalResults, i, exceptParser>>

\* for (let i = 0; i < results.length; i++) { ... }
PostStep ==
  /\ pc = "post"
  /\ i < Len(results)
  /\ finalResults' = postProcessOne(finalResults, results[i + 1])
  /\ i' = i + 1
  /\ UNCHANGED <<latex, cursor, results, pc, exceptParser>>

\* return finalResults
Return ==
  /\ pc = "post"
  /\ i >= Len(results)
  /\ pc' = "done"
  /\ UNCHANGED <<latex, cursor, results, finalResults, i, exceptParser>>

Next == ParseStep \/ ParseEnd \/ PostStep \/ Return

Spec == Init /\ [][Next]_vars

\* ------------------------------------------------------------------------
\* parseLatexToDocx as a function of its input (the two loops run to the end)
\* ------------------------------------------------------------------------
RECURSIVE parseLoop(_, _, _)
\* while (cursor < latex.length) results.push(...parseNext())
parseLoop(s, c, acc) ==
  IF c < Len(s)
  THEN LET r == parseNext(s, c) IN parseLoop(s, r.cursor, acc \o r.nodes)
  ELSE acc

RECURSIVE postLoop(_, _, _)
postLoop(res, k, acc) ==
  IF k < Len(res) THEN postLoop(res, k + 1, postProcessOne(acc, res[k + 1]))
  ELSE acc

parseLatexToDocx(s) == postLoop(parseLoop(s, 0, <<>>), 0, <<>>)

\* ------------------------------------------------------------------------
\* Vocabulary of the claims about the LaTeX parser
\* ------------------------------------------------------------------------
\* SubSuperscript(base, sub, sup) of the expression tree
MathSubSuperScript(children, subScript, superScript) ==
  [class |-> "MathSubSuperScript", children |-> children,
   subScript |-> subScript, superScript |-> superScript]

\* 0-based index of the "}" matching the "{" at index open, by depth
\* counting; -1 when there is none
RECURSIVE MatchFrom(_, _, _)
MatchFrom(s, k, depth) ==
  IF k >= Len(s) THEN -1
  ELSE IF At(s, k) = "{" THEN MatchFrom(s, k + 1, depth + 1)
  ELSE IF At(s, k) = "}"
       THEN IF depth = 1 THEN k ELSE MatchFrom(s, k + 1, depth - 1)
  ELSE MatchFrom(s, k + 1, depth)

MatchClose(s, open) == MatchFrom(s, open + 1, 1)

\* 0-based index of the first occurrence of ch at or after k; -1 if none
RECURSIVE IndexOf(_, _, _)
IndexOf(s, ch, k) ==
  IF k >= Len(s) THEN -1
  ELSE IF At(s, k) = ch THEN k ELSE IndexOf(s, ch, k + 1)

\* the first character at or after index k that is not a blank
RECURSIVE FirstNonBlank(_, _)
FirstNonBlank(s, k) ==
  IF k < Len(s) /\ At(s, k) = " " THEN FirstNonBlank(s, k + 1) ELSE At(s, k)

StartsWith(s, p) == Len(s) >= Len(p) /\ SubSeq(s, 1, Len(p)) = p

\* some "{" of s has no matching "}" before the end of input
UnmatchedOpen(s) ==
  \E k \in 0..(Len(s) - 1) : At(s, k) = "{" /\ MatchClose(s, k) = -1

\* the command token that starts at the backslash at index p
RECURSIVE LettersEnd(_, _)
LettersEnd(s, k) ==
  IF k < Len(s) /\ At(s, k) \in Letters THEN LettersEnd(s, k + 1) ELSE k

CommandAt(s, p) == slice(s, p, LettersEnd(s, p + 1))

DispatchTable == {FRAC, SQRT, SUM, INT}

RECURSIVE CountRuns(_, _)
\* the number of Run nodes with the given text, at any depth of a node list
CountRunsIn(n, text) ==
  (IF "class" \in DOMAIN n /\ n.class = "MathRun" /\ n.text = text
   THEN 1 ELSE 0)
  + (LET F == {"children", "numerator", "denominator", "degree",
               "superScript", "subScript"} \cap DOMAIN n
         RECURSIVE SumF(_)
         SumF(S) == IF S = {} THEN 0
                    ELSE LET f == CHOOSE f \in S : TRUE
                         IN  CountRuns(n[f], text) + SumF(S \ {f})
     IN  SumF(F))

CountRuns(list, text) ==
  IF Len(list) = 0 THEN 0
  ELSE CountRunsIn(Head(list), text) + CountRuns(Tail(list), text)

\* the number of positions of s at which the command token cmd starts
Occurrences(s, cmd) ==
  Cardinality({p \in 0..(Len(s) - 1) : At(s, p) = "\\" /\ CommandAt(s, p) = cmd})

\* ------------------------------------------------------------------------
\* Claims about parseLatexToDocx
\* ------------------------------------------------------------------------
RunOf(text) == <<MathRun(text)>>

\* C1: script binding is order-independent: b^s_t and b_t^s both return
\* the one-element list [SubSuperscript(base b, sub t, sup s)].
C1_ScriptOrderIndependent ==
  pc = "done" =>
    \A s \in ScriptArgs, t \in ScriptArgs :
      latex \in {<<"x", "^">> \o s \o <<"_">> \o t,
                 <<"x", "_">> \o t \o <<"^">> \o s}
        => finalResults =
             <<MathSubSuperScript(RunOf(<<"x">>), RunOf(t), RunOf(s))>>

\* C2: a leading bare script returns exactly one Superscript (Subscript)
\* whose base is an empty Run and whose script is s, and nothing else.
C2_LeadingScriptEmptyBase ==
  pc = "done" =>
    \A s \in ScriptArgs :
      /\ latex = <<"^">> \o s
           => finalResults = <<MathSuperScript(RunOf(<<>>), RunOf(s))>>
      /\ latex = <<"_">> \o s
           => finalResults = <<MathSubScript(RunOf(<<>>), RunOf(s))>>

UnknownCommands(s) ==
  {CommandAt(s, p) : p \in {q \in 0..(Len(s) - 1) : At(s, q) = "\\"}}
    \ DispatchTable

\* C3: a command that is not in the dispatch table never makes the parser
\* fail; every occurrence of it yields exactly one literal Run holding the
\* raw command text with its backslash, and what follows the command is
\* parsed as ordinary sibling nodes (as if the command were not there).
C3_UnknownCommandLiteralRun ==
  /\ pc # "threw"
  /\ pc \in {"post", "done"} =>
       /\ \A cmd \in UnknownCommands(latex) :
            CountRuns(results, cmd) = Occurrences(latex, cmd)
       /\ (At(latex, 0) = "\\" /\ CommandAt(latex, 0) \notin DispatchTable) =>
            LET cmd == CommandAt(latex, 0) IN
              results = RunOf(cmd)
                          \o parseLoop(slice(latex, Len(cmd), Len(latex)), 0, <<>>)
  /\ pc = "done" =>
       \A cmd \in UnknownCommands(latex) :
         CountRuns(finalResults, cmd) = Occurrences(latex, cmd)

C3_Witness ==
  /\ pc = "done"
  /\ latex = FOO \o <<"{", "x", "}">>
  /\ finalResults = <<MathRun(FOO), MathRun(<<"x">>)>>

\* C4: an input with an opening brace that has no matching closing brace
\* makes the parser signal a ParseError instead of returning a tree, and
\* the parser fails on no other input.
C4_UnmatchedBraceSignalsError ==
  /\ pc = "done" => ~UnmatchedOpen(latex)
  /\ pc = "threw" => UnmatchedOpen(latex)

\* the input is \frac{G1}{G2} followed by anything
IsFracOfTwoGroups(s) ==
  /\ StartsWith(s, FRAC \o <<"{">>)
  /\ MatchClose(s, 5) # -1
  /\ At(s, MatchClose(s, 5) + 1) = "{"
  /\ MatchClose(s, MatchClose(s, 5) + 1) # -1

\* C5: \frac followed by two brace groups G1 and G2 yields exactly one
\* Fraction whose numerator is the parse of G1's content and whose
\* denominator is the parse of G2's content; every other node comes from
\* the text after G2.
C5_FracOfTwoGroups ==
  (pc \in {"post", "done"} /\ IsFracOfTwoGroups(latex)) =>
    LET m1 == MatchClose(latex, 5)
        m2 == MatchClose(latex, m1 + 1)
    IN  results =
          <<MathFraction(parseLatexToDocx(slice(latex, 6, m1)),
                         parseLatexToDocx(slice(latex, m1 + 2, m2)))>>
            \o parseLoop(slice(latex, m2 + 1, Len(latex)), 0, <<>>)

\* the input is \sqrt[D]{B} followed by anything
IsSqrtWithDegree(s) ==
  /\ StartsWith(s, SQRT \o <<"[">>)
  /\ IndexOf(s, "]", 6) # -1
  /\ At(s, IndexOf(s, "]", 6) + 1) = "{"
  /\ MatchClose(s, IndexOf(s, "]", 6) + 1) # -1

\* the input is \sqrt{B} followed by anything
IsSqrtOfGroup(s) == StartsWith(s, SQRT \o <<"{">>) /\ MatchClose(s, 5) # -1

\* C6: \sqrt[D]{B} yields exactly one Radical whose degree is the parse of
\* D and whose body is the parse of B; when the character after \sqrt
\* (blanks after the command name aside) is not "[" the Radical has no
\* degree and its body is the next group.
C6_SqrtDegreeAndBody ==
  pc \in {"post", "done"} =>
    /\ IsSqrtWithDegree(latex) =>
         LET r == IndexOf(latex, "]", 6)
             m == MatchClose(latex, r + 1)
         IN  results =
               <<MathRadicalDeg(parseLatexToDocx(slice(latex, 6, r)),
                                parseLatexToDocx(slice(latex, r + 2, m)))>>
                 \o parseLoop(slice(latex, m + 1, Len(latex)), 0, <<>>)
    /\ (CommandAt(latex, 0) = SQRT /\ FirstNonBlank(latex, 5) # "[") =>
         /\ Len(results) >= 1
         /\ results[1].class = "MathRadical"
         /\ "degree" \notin DOMAIN results[1]
    /\ IsSqrtOfGroup(latex) =>
         LET m == MatchClose(latex, 5)
         IN  results =
               <<MathRadical(parseLatexToDocx(slice(latex, 6, m)))>>
                 \o parseLoop(slice(latex, m + 1, Len(latex)), 0, <<>>)

MmlNode(kind, childNodes) == [kind |-> kind, childNodes |-> childNodes]

TextNode(text) == [kind |-> "text", childNodes |-> <<>>, text |-> text]

\* a token element holding one text node
Token(kind, text) == MmlNode(kind, <<TextNode(text)>>)

\* node.childNodes[k], undefined past the end
childAt(node, k) ==
  IF k < Len(node.childNodes) THEN node.childNodes[k + 1] ELSE Undefined

\* the outcome of an emission that threw (reading .kind of undefined)
Threw == <<"#TypeError">>

\* string concatenation of emissions; a throw in any part aborts the whole
RECURSIVE Join(_)
Join(parts) ==
  IF Len(parts) = 0 THEN <<>>
  ELSE LET rest == Join(Tail(parts))
       IN  IF Head(parts) = Threw \/ rest = Threw THEN Threw
           ELSE Head(parts) \o rest

\* the pieces a text contributes to the string
Text(text) == IF text = "" THEN <<>> ELSE <<text>>

OMathOpen ==
  "<m:oMath xmlns:m=\"http://schemas.openxmlformats.org/officeDocument/2006/math\">"

RECURSIVE visitNode(_)
RECURSIVE visitAll(_)

\* for (const child of node.childNodes) result += this.visitNode(child)
visitAll(list) ==
  IF Len(list) = 0 THEN <<>>
  ELSE Join(<<visitNode(Head(list)), visitAll(Tail(list))>>)

\* the child loop stopping after the first child
visitChildrenFirstOnly(node) ==
  IF Len(node.childNodes) = 0 THEN <<>> ELSE visitNode(node.childNodes[1])

visitChildren(node) == visitAll(node.childNodes)

getText(node) ==
  IF Len(node.childNodes) > 0 /\ node.childNodes[1].kind = "text"
  THEN node.childNodes[1].text
  ELSE ""

createRun(style, text) ==
  <<"<m:r>", "<m:t>">> \o Text(text) \o <<"</m:t>", "</m:r>">>

visitMath(node) ==
  Join(<< <<OMathOpen>>, visitChildren(node), <<"</m:oMath>">> >>)

\* the fraction handler emitting no denominator wrapper
visitMfracNoDen(node) ==
  LET num == visitNode(childAt(node, 0))
  IN  Join(<< <<"<m:f>", "<m:num>">>, num, <<"</m:num>", "</m:f>">> >>)

visitMfrac(node) ==
  LET num == visitNode(childAt(node, 0))
      den == visitNode(childAt(node, 1))
  IN  Join(<< <<"<m:f>", "<m:num>">>, num, <<"</m:num>", "<m:den>">>, den,
              <<"</m:den>", "</m:f>">> >>)

visitMsqrt(node) ==
  LET base == visitChildren(node)
  IN  Join(<< <<"<m:rad>", "<m:radPr>", "<m:degHide m:val=\"on\"/>",
                "</m:radPr>", "<m:e>">>, base, <<"</m:e>", "</m:rad>">> >>)

\* the root handler taking the degree from the first child and the body
\* from the second
visitMrootSwapped(node) ==
  LET base == visitNode(childAt(node, 1))
      degree == visitNode(childAt(node, 0))
  IN  Join(<< <<"<m:rad>", "<m:deg>">>, degree, <<"</m:deg>", "<m:e>">>, base,
              <<"</m:e>", "</m:rad>">> >>)

visitMroot(node) ==
  LET base == visitNode(childAt(node, 0))
      degree == visitNode(childAt(node, 1))
  IN  Join(<< <<"<m:rad>", "<m:deg>">>, degree, <<"</m:deg>", "<m:e>">>, base,
              <<"</m:e>", "</m:rad>">> >>)

visitMsup(node) ==
  LET base == visitNode(childAt(node, 0))
      sup == visitNode(childAt(node, 1))
  IN  Join(<< <<"<m:sSup>", "<m:e>">>, base, <<"</m:e>", "<m:sup>">>, sup,
              <<"</m:sup>", "</m:sSup>">> >>)

visitMsub(node) ==
  LET base == visitNode(childAt(node, 0))
      sub == visitNode(childAt(node, 1))
  IN  Join(<< <<"<m:sSub>", "<m:e>">>, base, <<"</m:e>", "<m:sub>">>, sub,
              <<"</m:sub>", "</m:sSub>">> >>)

\* the sub-superscript handler emitting the sup wrapper before the sub
visitMsubsupSupFirst(node) ==
  LET base == visitNode(childAt(node, 0))
      sub == visitNode(childAt(node, 1))
      sup == visitNode(childAt(node, 2))
  IN  Join(<< <<"<m:sSubSup>", "<m:e>">>, base, <<"</m:e>", "<m:sup>">>, sup,
              <<"</m:sup>", "<m:sub>">>, sub, <<"</m:sub>", "</m:sSubSup>">> >>)

visitMsubsup(node) ==
  LET base == visitNode(childAt(node, 0))
      sub == visitNode(childAt(node, 1))
      sup == visitNode(childAt(node, 2))
  IN  Join(<< <<"<m:sSubSup>", "<m:e>">>, base, <<"</m:e>", "<m:sub>">>, sub,
              <<"</m:sub>", "<m:sup>">>, sup, <<"</m:sup>", "</m:sSubSup>">> >>)

visitMi(node) == createRun("norm", getText(node))

visitMn(node) == createRun("norm", getText(node))

visitMo(node) == createRun("math", getText(node))

visitMtext(node) == createRun("norm", getText(node))

visitMspace(node) == <<>>

visitMrow(node) == visitChildren(node)

\* the style handler dropping its children
visitMstyleDrop(node) == <<>>

visitMstyle(node) == visitChildren(node)

NaryOpen(hide) ==
  <<"<m:nary>", "<m:naryPr>", "<m:limLoc m:val=\"undOvr\"/>">> \o hide
    \o <<"</m:naryPr>", "<m:sub>">>

visitMunderover(node) ==
  LET base == visitNode(childAt(node, 0))
      under == visitNode(childAt(node, 1))
      over == visitNode(childAt(node, 2))
  IN  Join(<< NaryOpen(<<>>), under, <<"</m:sub>", "<m:sup>">>, over,
              <<"</m:sup>", "<m:e>">>, base, <<"</m:e>", "</m:nary>">> >>)

visitMunder(node) ==
  LET base == visitNode(childAt(node, 0))
      under == visitNode(childAt(node, 1))
  IN  Join(<< NaryOpen(<<"<m:supHide m:val=\"on\"/>">>), under,
              <<"</m:sub>", "<m:sup>", "</m:sup>", "<m:e>">>, base,
              <<"</m:e>", "</m:nary>">> >>)

\* the over handler writing the over content into the sub wrapper
visitMoverIntoSub(node) ==
  LET base == visitNode(childAt(node, 0))
      over == visitNode(childAt(node, 1))
  IN  Join(<< NaryOpen(<<"<m:subHide m:val=\"on\"/>">>), over,
              <<"</m:sub>", "<m:sup>", "</m:sup>", "<m:e>">>, base,
              <<"</m:e>", "</m:nary>">> >>)

visitMover(node) ==
  LET base == visitNode(childAt(node, 0))
      over == visitNode(childAt(node, 1))
  IN  Join(<< NaryOpen(<<"<m:subHide m:val=\"on\"/>">>),
              <<"</m:sub>", "<m:sup>">>, over, <<"</m:sup>", "<m:e>">>, base,
              <<"</m:e>", "</m:nary>">> >>)

\* const handler = this["visit" + Kind]; if (handler) ... else visitChildren
visitNode(node) ==
  IF node = Undefined THEN Threw
  ELSE IF node.kind = "math" THEN visitMath(node)
  ELSE IF node.kind = "mfrac" THEN visitMfrac(node)
  ELSE IF node.kind = "msqrt" THEN visitMsqrt(node)
  ELSE IF node.kind = "mroot" THEN visitMroot(node)
  ELSE IF node.kind = "msup" THEN visitMsup(node)
  ELSE IF node.kind = "msub" THEN visitMsub(node)
  ELSE IF node.kind = "msubsup" THEN visitMsubsup(node)
  ELSE IF node.kind = "mi" THEN visitMi(node)
  ELSE IF node.kind = "mn" THEN visitMn(node)
  ELSE IF node.kind = "mo" THEN visitMo(node)
  ELSE IF node.kind = "mtext" THEN visitMtext(node)
  ELSE IF node.kind = "mspace" THEN visitMspace(node)
  ELSE IF node.kind = "mrow" THEN visitMrow(node)
  ELSE IF node.kind = "mstyle" THEN visitMstyle(node)
  ELSE IF node.kind = "munderover" THEN visitMunderover(node)
  ELSE IF node.kind = "munder" THEN visitMunder(node)
  ELSE IF node.kind = "mover" THEN visitMover(node)
  ELSE visitChildren(node)

visitTree(node) == visitNode(node)

\* ------------------------------------------------------------------------
\* The trees handed to the visitor: a math root over well-formed elements
\* ------------------------------------------------------------------------
RowKinds == {"mrow", "mstyle"}

LeafNodes == {Token("mn", "1"), Token("mn", "2")}

\* the trees with exactly n nodes (text nodes not counted), given the
\* forests F with n - 1 nodes and the smaller trees T[1..n-1]
TreesNext(T, F) ==
  LET n == Len(T) + 1 IN
  IF n = 1 THEN LeafNodes \cup {MmlNode(k, <<>>) : k \in RowKinds}
  ELSE {MmlNode(k, f) : k \in RowKinds, f \in F[n]}
         \cup UNION {{MmlNode("mfrac", <<a, b>>) : a \in T[j], b \in T[n - 1 - j]} :
                     j \in 1..(n - 2)}

\* the sequences of trees with n nodes in all, given T[1..n] and the
\* forests F[j + 1] with j < n nodes
ForestsNext(T, F) ==
  LET n == Len(T) IN
  UNION {{<<a>> \o f : a \in T[j], f \in F[n - j + 1]} : j \in 1..n}

RECURSIVE Forests(_, _, _)
\* all forests with at most n nodes, built size by size
Forests(T, F, n) ==
  IF Len(T) = n THEN UNION {F[k] : k \in 1..Len(F)}
  ELSE LET T1 == Append(T, TreesNext(T, F))
       IN  Forests(T1, Append(F, ForestsNext(T1, F)), n)

MathTrees(n) == {MmlNode("math", f) : f \in Forests(<<>>, <<{<<>>}>>, n)}

\* the arguments a fixed-arity construct is given: tokens, a spacing
\* element, an empty and a full Row, nested constructs
SlotNodes ==
  LeafNodes \cup
  {MmlNode("mspace", <<>>),
   MmlNode("mrow", <<>>),
   MmlNode("mrow", <<Token("mn", "1"), Token("mn", "2")>>),
   MmlNode("msup", <<Token("mi", "x"), Token("mn", "2")>>),
   MmlNode("mfrac", <<MmlNode("mspace", <<>>), MmlNode("mrow", <<>>)>>)}

\* a math root over one fraction, superscript, subscript or sub-superscript
ArityTrees ==
  {MmlNode("math", <<MmlNode(k, <<a, b>>)>>) :
     k \in {"mfrac", "msup", "msub"}, a \in SlotNodes, b \in SlotNodes}
  \cup {MmlNode("math", <<MmlNode("msubsup", <<a, b, c>>)>>) :
          a \in SlotNodes, b \in SlotNodes, c \in SlotNodes}

\* kinds OmmlVisitor has no handler for: containers, and a token element
UnhandledKinds == {"mpadded", "TeXAtom", "ms"}

UnhandledInner ==
  {Token("mn", "1"), MmlNode("mspace", <<>>), Token("ms", "s"),
   MmlNode("mfrac", <<Token("mn", "1"), Token("mn", "2")>>)}

\* an unhandled container over at most two children
UnhandledNodes ==
  {MmlNode(k, f) :
     k \in {"mpadded", "TeXAtom"},
     f \in {<<>>} \cup {<<a>> : a \in UnhandledInner}
            \cup {<<a, b>> : a \in UnhandledInner, b \in UnhandledInner}}

\* trees with unhandled nodes under the root, beside a sibling, under
\* another unhandled node and under a handled construct
UnhandledTrees ==
  UNION {{MmlNode("math", <<u>>),
          MmlNode("math", <<Token("mn", "2"), u>>),
          MmlNode("math", <<MmlNode("mpadded", <<u, Token("mn", "2")>>)>>),
          MmlNode("math", <<MmlNode("mfrac", <<u, Token("mn", "2")>>)>>)} :
         u \in UnhandledNodes}

\* fractions with zero, one and three children
MalformedTrees ==
  {MmlNode("math", <<MmlNode("mfrac", f)>>) :
     f \in {<<>>} \cup {<<a>> : a \in SlotNodes}
            \cup {<<a, b, c>> : a \in SlotNodes, b \in SlotNodes, c \in SlotNodes}}

\* the trees the data model allows
VisitorTrees(k) == MathTrees(k) \cup ArityTrees \cup UnhandledTrees

\* ------------------------------------------------------------------------
\* visitTree as a state machine
\* ------------------------------------------------------------------------
VisitorStart == mml \in VisitorTrees(MaxNodes) /\ markup = <<>> /\ vpc = "start"

InitVisitor == ParserIdle /\ VisitorStart /\ IngestIdle /\ DocIdle /\ CallsIdle /\ PageIdle

Visit ==
  /\ vpc = "start"
  /\ markup' = visitTree(mml)
  /\ vpc' = IF visitTree(mml) = Threw THEN "threw" ELSE "done"
  /\ UNCHANGED <<mml, exceptVisitor>>

NextVisitor == Visit

SpecVisitor == InitVisitor /\ [][NextVisitor]_vars

\* visitTree on trees that break the data model
InitVisitorMalformed ==
  /\ ParserIdle /\ IngestIdle /\ DocIdle /\ CallsIdle /\ PageIdle
  /\ mml \in MalformedTrees /\ markup = <<>> /\ vpc = "start"

SpecVisitorMalformed == InitVisitorMalformed /\ [][NextVisitor]_vars

\* ------------------------------------------------------------------------
\* Claims about OmmlVisitor
\* ------------------------------------------------------------------------
IsRow(n) == n.kind \in RowKinds

RECURSIVE FlatSeq(_)
RECURSIVE FlatNode(_)

\* a child sequence with every Row among the siblings spliced in place
FlatSeq(list) ==
  IF Len(list) = 0 THEN <<>>
  ELSE (IF IsRow(Head(list)) THEN FlatSeq(Head(list).childNodes)
        ELSE <<FlatNode(Head(list))>>) \o FlatSeq(Tail(list))

\* one argument of a fixed-arity construct: its Rows flattened into at most
\* one Row, and none at all around a single node
FlatSlot(n) ==
  IF IsRow(n)
  THEN LET f == FlatSeq(n.childNodes)
       IN  IF Len(f) = 1 THEN f[1] ELSE MmlNode("mrow", f)
  ELSE FlatNode(n)

\* the same ordered leaves with no Row nested in a Row or in a sequence
FlatNode(n) ==
  IF n.kind = "math" THEN MmlNode("math", FlatSeq(n.childNodes))
  ELSE IF n.kind = "mfrac"
       THEN MmlNode("mfrac", <<FlatSlot(n.childNodes[1]), FlatSlot(n.childNodes[2])>>)
  ELSE n

\* C8: Row flattening is transparent to the serializer: every tree
\* serializes to the same markup as the tree holding the same ordered
\* leaves with its Row nesting flattened away, so any two trees that differ
\* only in Row nesting serialize identically.
C8_RowFlatteningTransparent ==
  vpc \in {"done", "threw"} =>
    /\ vpc = "done"
    /\ markup = visitTree(FlatNode(mml))

C8_Witness ==
  /\ vpc = "done"
  /\ mml = MmlNode("math",
             <<MmlNode("mrow", <<MmlNode("mstyle", <<Token("mn", "1")>>),
                                 Token("mn", "2")>>)>>)
  /\ FlatNode(mml) = MmlNode("math", <<Token("mn", "1"), Token("mn", "2")>>)
  /\ markup = <<OMathOpen, "<m:r>", "<m:t>", "1", "</m:t>", "</m:r>",
                "<m:r>", "<m:t>", "2", "</m:t>", "</m:r>", "</m:oMath>">>

RECURSIVE CountPiece(_, _)
\* the number of occurrences of a piece in a markup
CountPiece(m, piece) ==
  IF Len(m) = 0 THEN 0
  ELSE (IF Head(m) = piece THEN 1 ELSE 0) + CountPiece(Tail(m), piece)

RECURSIVE KindsIn(_, _)
\* the number of nodes of the given kind in a child sequence, at any depth
KindsIn(list, kind) ==
  IF Len(list) = 0 THEN 0
  ELSE (IF Head(list).kind = kind THEN 1 ELSE 0)
         + KindsIn(Head(list).childNodes, kind) + KindsIn(Tail(list), kind)

\* 1-based index of the first occurrence of a piece; 0 when there is none
RECURSIVE PieceIndex(_, _, _)
PieceIndex(m, piece, k) ==
  IF k > Len(m) THEN 0
  ELSE IF m[k] = piece THEN k ELSE PieceIndex(m, piece, k + 1)

\* the pieces strictly between the first `open` and the first `close`
Inside(m, open, close) ==
  SubSeq(m, PieceIndex(m, open, 1) + 1, PieceIndex(m, close, 1) - 1)

FracOfOneTwo == MmlNode("math", <<MmlNode("mfrac", <<Token("mn", "1"), Token("mn", "2")>>)>>)

\* C9: the markup of every tree has exactly one math-root wrapper, as its
\* outermost element, and as many fraction wrappers as the tree has
\* fraction nodes; for the tree of \frac{1}{2} the one fraction wrapper
\* lies inside the math root and its numerator and denominator each hold
\* exactly one text-run wrapper (around 1 and around 2).
C9_RoundTripShape ==
  vpc \in {"done", "threw"} =>
    /\ vpc = "done"
    /\ Len(markup) >= 2
    /\ markup[1] = OMathOpen
    /\ markup[Len(markup)] = "</m:oMath>"
    /\ CountPiece(markup, OMathOpen) = 1
    /\ CountPiece(markup, "</m:oMath>") = 1
    /\ CountPiece(markup, "<m:f>") = KindsIn(<<mml>>, "mfrac")
    /\ CountPiece(markup, "</m:f>") = KindsIn(<<mml>>, "mfrac")
    /\ CountPiece(markup, "<m:num>") = KindsIn(<<mml>>, "mfrac")
    /\ CountPiece(markup, "<m:den>") = KindsIn(<<mml>>, "mfrac")
    /\ mml = FracOfOneTwo =>
         /\ Inside(markup, OMathOpen, "</m:oMath>")[1] = "<m:f>"
         /\ Inside(markup, "<m:f>", "</m:f>")
              = <<"<m:num>">> \o Inside(markup, "<m:num>", "</m:num>")
                  \o <<"</m:num>", "<m:den>">>
                  \o Inside(markup, "<m:den>", "</m:den>") \o <<"</m:den>">>
         /\ Inside(markup, "<m:num>", "</m:num>")
              = <<"<m:r>", "<m:t>", "1", "</m:t>", "</m:r>">>
         /\ Inside(markup, "<m:den>", "</m:den>")
              = <<"<m:r>", "<m:t>", "2", "</m:t>", "</m:r>">>

C9_Witness ==
  /\ vpc = "done"
  /\ mml = FracOfOneTwo
  /\ CountPiece(markup, "<m:f>") = 1
  /\ CountPiece(markup, "<m:r>") = 2

\* ========================================================================
\* Markup ingestion: MathML element tree -> docx math components
\* ========================================================================
\* one "character" each; the code points the source and the renderer use
SumGlyph == "U+2211"
IntGlyph == "U+222B"
SigmaGlyph == "U+03A3"

\* { name, children, text }: an absent text is the empty string
MathmlNode(name, children, text) ==
  [name |-> name, children |-> children, text |-> text]

TextLeaf(text) == MathmlNode("#text", <<>>, text)

\* an element holding one text node, as buildMathmlNodes builds it
Elem(name, text) == MathmlNode(name, <<TextLeaf(text)>>, <<>>)

RECURSIVE getMathmlText(_)
RECURSIVE joinTexts(_)

\* node.children.map(getMathmlText).join("")
joinTexts(list) ==
  IF Len(list) = 0 THEN <<>>
  ELSE getMathmlText(Head(list)) \o joinTexts(Tail(list))

getMathmlText(node) ==
  IF node.name = "#text" THEN node.text
  ELSE IF node.text # <<>> THEN node.text
  ELSE joinTexts(node.children)

RECURSIVE trimStart(_)
trimStart(s) ==
  IF Len(s) > 0 /\ IsSpace(Head(s)) THEN trimStart(Tail(s)) ELSE s

RECURSIVE trimEnd(_)
trimEnd(s) ==
  IF Len(s) > 0 /\ IsSpace(s[Len(s)]) THEN trimEnd(SubSeq(s, 1, Len(s) - 1))
  ELSE s

\* String.prototype.trim
trim(s) == trimEnd(trimStart(s))

RECURSIVE collapseSpaces(_)
\* s.replace(/\s+/g, " ")
collapseSpaces(s) ==
  IF Len(s) = 0 THEN <<>>
  ELSE IF IsSpace(Head(s)) THEN <<" ">> \o collapseSpaces(trimStart(s))
  ELSE <<Head(s)>> \o collapseSpaces(Tail(s))

\* String.prototype.includes, for a one-character needle
includes(s, ch) == \E k \in 1..Len(s) : s[k] = ch

\* new MathSum / new MathIntegral ({ children, subScript, superScript }):
\* a limit whose source child is missing is undefined, i.e. absent
Nary(class, children, limits) ==
  IF Len(limits) >= 2
  THEN [class |-> class, children |-> children, subScript |-> limits[1],
        superScript |-> limits[2]]
  ELSE IF Len(limits) = 1
  THEN [class |-> class, children |-> children, subScript |-> limits[1]]
  ELSE [class |-> class, children |-> children]

RECURSIVE seqLoop(_, _, _)
RECURSIVE nodeToComponents(_)
RECURSIVE toComponents(_)

seqToComponents(list) == seqLoop(list, 0, <<>>)

toComponents(node) ==
  IF node.name \in {"math", "mrow", "mstyle"} THEN seqToComponents(node.children)
  ELSE nodeToComponents(node)

\* the part taken from the last child when the child asked for is missing
partOfLastChild(node, k) ==
  IF k < Len(node.children) THEN toComponents(node.children[k + 1])
  ELSE IF Len(node.children) > 0
  THEN toComponents(node.children[Len(node.children)])
  ELSE <<>>

\* node.children[k] ? toComponents(node.children[k]) : []
partOf(node, k) ==
  IF k < Len(node.children) THEN toComponents(node.children[k + 1]) ELSE <<>>

IsDecorated(node) == node.name \in {"munderover", "munder", "mover"}

\* baseNode ? getMathmlText(baseNode).trim() : ""
baseTextOf(node) ==
  IF Len(node.children) > 0 THEN trim(getMathmlText(node.children[1])) ELSE <<>>

\* [subScript, superScript] from children[1] and children[2], as far as
\* they exist
limitsOf(node) ==
  IF Len(node.children) > 2
  THEN <<toComponents(node.children[2]), toComponents(node.children[3])>>
  ELSE IF Len(node.children) > 1 THEN <<toComponents(node.children[2])>>
  ELSE <<>>

\* the lookahead with no glyph recognised
foldGlyphNone(list, k) == ""

\* the glyph that makes the element at index k fold with its next sibling,
\* "" when it does not fold
foldGlyph(list, k) ==
  IF IsDecorated(list[k + 1]) /\ k + 1 < Len(list)
  THEN IF includes(baseTextOf(list[k + 1]), SumGlyph) THEN SumGlyph
       ELSE IF includes(baseTextOf(list[k + 1]), IntGlyph) THEN IntGlyph
       ELSE ""
  ELSE ""

\* the loop iteration folding without the extra i++: the operand sibling is
\* converted a second time by the next iteration
seqStepNoSkip(list, k, acc) ==
  LET node == list[k + 1]
      g == foldGlyph(list, k)
  IN  IF g = SumGlyph
      THEN [idx |-> k + 1,
            out |-> Append(acc, Nary("MathSum", toComponents(list[k + 2]),
                                     limitsOf(node)))]
      ELSE IF g = IntGlyph
      THEN [idx |-> k + 1,
            out |-> Append(acc, Nary("MathIntegral", toComponents(list[k + 2]),
                                     limitsOf(node)))]
      ELSE [idx |-> k + 1, out |-> acc \o nodeToComponents(node)]

\* one iteration of the for loop: the index after it and the new output
seqStep(list, k, acc) ==
  LET node == list[k + 1]
      g == foldGlyph(list, k)
  IN  IF g = SumGlyph
      THEN [idx |-> k + 2,
            out |-> Append(acc, Nary("MathSum", toComponents(list[k + 2]),
                                     limitsOf(node)))]
      ELSE IF g = IntGlyph
      THEN [idx |-> k + 2,
            out |-> Append(acc, Nary("MathIntegral", toComponents(list[k + 2]),
                                     limitsOf(node)))]
      ELSE [idx |-> k + 1, out |-> acc \o nodeToComponents(node)]

seqLoop(list, k, acc) ==
  IF k < Len(list)
  THEN LET r == seqStep(list, k, acc) IN seqLoop(list, r.idx, r.out)
  ELSE acc

\* the run of a token without the whitespace replacement
textRunUncollapsed(node) ==
  LET text == trim(getMathmlText(node))
  IN  IF text # <<>> THEN <<MathRun(text)>> ELSE <<>>

\* getMathmlText(node).replace(/\s+/g, " ").trim(); text ? [new MathRun(text)] : []
textRun(node) ==
  LET text == trim(collapseSpaces(getMathmlText(node)))
  IN  IF text # <<>> THEN <<MathRun(text)>> ELSE <<>>

nodeToComponents(node) ==
  IF node.name \in {"math", "mrow", "mstyle"} THEN seqToComponents(node.children)
  ELSE IF node.name \in {"mi", "mn", "mo", "mtext"} THEN textRun(node)
  ELSE IF node.name = "mspace" THEN <<>>
  ELSE IF node.name = "mfrac"
       THEN <<MathFraction(partOf(node, 0), partOf(node, 1))>>
  ELSE IF node.name = "msqrt"
       THEN <<MathRadical(seqToComponents(node.children))>>
  ELSE IF node.name = "mroot"
       THEN <<MathRadicalDeg(partOf(node, 1), partOf(node, 0))>>
  ELSE IF node.name = "msup"
       THEN <<MathSuperScript(partOf(node, 0), partOf(node, 1))>>
  ELSE IF node.name = "msub"
       THEN <<MathSubScript(partOf(node, 0), partOf(node, 1))>>
  ELSE IF node.name = "msubsup"
       THEN <<MathSubSuperScript(partOf(node, 0), partOf(node, 1), partOf(node, 2))>>
  ELSE IF node.name = "mfenced" THEN seqToComponents(node.children)
  ELSE IF Len(node.children) > 0 THEN seqToComponents(node.children)
  ELSE textRun(node)

\* ------------------------------------------------------------------------
\* The sibling sequences handed to seqToComponents
\* ------------------------------------------------------------------------
Decorated(base) ==
  MathmlNode("munderover",
             <<base, Elem("mi", <<"i">>), Elem("mn", <<"n">>)>>, <<>>)

SumUnderOver == Decorated(Elem("mo", <<SumGlyph>>))

Elements ==
  {Elem("mi", <<"x">>),
   Elem("mn", <<"2">>),
   SumUnderOver,
   Decorated(Elem("mo", <<SigmaGlyph>>)),
   Decorated(Elem("mo", <<IntGlyph>>)),
   Decorated(Elem("mi", <<"x">>)),
   MathmlNode("munder", <<Elem("mo", <<SumGlyph>>), Elem("mi", <<"i">>)>>, <<>>),
   MathmlNode("mover", <<Elem("mo", <<IntGlyph>>), Elem("mn", <<"n">>)>>, <<>>),
   MathmlNode("mrow", <<SumUnderOver, Elem("mi", <<"x">>)>>, <<>>)}

RECURSIVE SiblingSeqs(_)
\* the sequences of at most n elements
SiblingSeqs(n) ==
  IF n = 0 THEN {<<>>}
  ELSE LET shorter == SiblingSeqs(n - 1)
       IN  shorter \cup {Append(q, e) : q \in shorter, e \in Elements}

\* ------------------------------------------------------------------------
\* seqToComponents as a state machine: one action per loop iteration
\* ------------------------------------------------------------------------
IngestStart ==
  /\ nodes \in SiblingSeqs(MaxSibs)
  /\ idx = 0
  /\ out = <<>>
  /\ ipc = "loop"

InitIngest == ParserIdle /\ VisitorIdle /\ IngestStart /\ DocIdle /\ CallsIdle /\ PageIdle

\* baseText.includes(sum) && next: push MathSum, i++, continue
FoldSum ==
  /\ ipc = "loop"
  /\ idx < Len(nodes)
  /\ foldGlyph(nodes, idx) = SumGlyph
  /\ idx' = seqStep(nodes, idx, out).idx
  /\ out' = seqStep(nodes, idx, out).out
  /\ UNCHANGED <<nodes, ipc, exceptIngest>>

\* baseText.includes(integral) && next: push MathIntegral, i++, continue
FoldIntegral ==
  /\ ipc = "loop"
  /\ idx < Len(nodes)
  /\ foldGlyph(nodes, idx) = IntGlyph
  /\ idx' = seqStep(nodes, idx, out).idx
  /\ out' = seqStep(nodes, idx, out).out
  /\ UNCHANGED <<nodes, ipc, exceptIngest>>

\* out.push(...nodeToComponents(node))
PushNode ==
  /\ ipc = "loop"
  /\ idx < Len(nodes)
  /\ foldGlyph(nodes, idx) = ""
  /\ idx' = seqStep(nodes, idx, out).idx
  /\ out' = seqStep(nodes, idx, out).out
  /\ UNCHANGED <<nodes, ipc, exceptIngest>>

\* return out
SeqReturn ==
  /\ ipc = "loop"
  /\ idx >= Len(nodes)
  /\ ipc' = "done"
  /\ UNCHANGED <<nodes, idx, out, exceptIngest>>

NextIngest == FoldSum \/ FoldIntegral \/ PushNode \/ SeqReturn

SpecIngest == InitIngest /\ [][NextIngest]_vars

\* ------------------------------------------------------------------------
\* Claims about large-operator folding
\* ------------------------------------------------------------------------
\* the loop stands at a decorated element that has a following sibling
AtDecoratedWithSibling ==
  /\ ipc = "loop"
  /\ idx + 1 < Len(nodes)
  /\ IsDecorated(nodes[idx + 1])

\* the step consumed both siblings into one large operator whose operand is
\* the converted sibling
FoldedStep ==
  /\ idx' = idx + 2
  /\ Len(out') = Len(out) + 1
  /\ SubSeq(out', 1, Len(out)) = out
  /\ out'[Len(out')].class \in {"MathSum", "MathIntegral"}
  /\ out'[Len(out')].children = toComponents(nodes[idx + 2])

\* the step converted the decorated element alone; its sibling is still to
\* be converted, after it
UnfoldedStep ==
  /\ idx' = idx + 1
  /\ out' = out \o nodeToComponents(nodes[idx + 1])

UnrelatedTo(glyphs) ==
  \A g \in glyphs : ~includes(baseTextOf(nodes[idx + 1]), g)

MaxBlocks == 2

Generators == {"components", "svg"}
LatexValues == {"a", "b"}

\* a markdown AST node: { type, value, depth, children }
MdNode(type, value, depth, kids) ==
  [type |-> type, value |-> value, depth |-> depth, children |-> kids]

\* { bold, italics } of parentStyle; FALSE stands for false and undefined
NoStyle == [bold |-> FALSE, italics |-> FALSE]

\* new TextRun({ text, bold, italics, color })
TextRun(text, style, color) ==
  [class |-> "TextRun", text |-> text, bold |-> style.bold,
   italics |-> style.italics, color |-> color]

\* new Math({ children })
MathOf(components) == [class |-> "Math", children |-> components]

\* new ImageRun({ data: Buffer.from(result.svg), ... })
ImageRun(svg) == [class |-> "ImageRun", data |-> svg]

\* new Paragraph({ children, heading | bullet | alignment })
Paragraph(runs, layout, level) ==
  [class |-> "Paragraph", children |-> runs, layout |-> layout, level |-> level]

\* the outcome of a call: a value, or an exception leaving the call
Returned(value) == [threw |-> FALSE, value |-> value]
Thrown == [threw |-> TRUE, value |-> <<>>]

\* temml.renderToString, mathmlParser.parse, seqToComponents: no try/catch
latexToMathComponents(value, displayMode, bad) ==
  IF value \in bad THEN Thrown
  ELSE Returned(<<[class |-> "Rendered", latex |-> value, display |-> displayMode]>>)

\* html.convert inside try { } catch { return null }
convertLatexToSvg(value, isInline, bad) ==
  IF value \in bad THEN [null |-> TRUE, svg |-> <<>>]
  ELSE [null |-> FALSE, svg |-> <<"<svg>", value, "</svg>">>]

\* the inlineMath branch of processNode, in either generation
inlineMath(gen, bad, node) ==
  IF gen = "components"
  THEN LET r == latexToMathComponents(node.value, FALSE, bad)
       IN  IF r.threw THEN Thrown ELSE Returned(<<MathOf(r.value)>>)
  ELSE LET result == convertLatexToSvg(node.value, TRUE, bad)
       IN  IF ~result.null THEN Returned(<<ImageRun(result.svg)>>)
           ELSE Returned(<<TextRun(<<"$", node.value, "$">>, NoStyle, "red")>>)

RECURSIVE processNode(_, _, _, _)
RECURSIVE processChildren(_, _, _, _, _)

\* for (const child of node.children) results.push(...processNode(child, style))
processChildren(gen, bad, kids, style, acc) ==
  IF Len(kids) = 0 THEN Returned(acc)
  ELSE LET r == processNode(gen, bad, Head(kids), style)
       IN  IF r.threw THEN Thrown
           ELSE processChildren(gen, bad, Tail(kids), style, acc \o r.value)

processNode(gen, bad, node, style) ==
  IF node.type = "text"
  THEN Returned(<<TextRun(<<node.value>>, style, "auto")>>)
  ELSE IF node.type = "inlineMath" THEN inlineMath(gen, bad, node)
  ELSE IF node.type \in {"emphasis", "strong"}
  THEN processChildren(gen, bad, node.children,
                       [bold |-> node.type = "strong" \/ style.bold,
                        italics |-> node.type = "emphasis" \/ style.italics],
                       <<>>)
  ELSE processChildren(gen, bad, node.children, style, <<>>)

RECURSIVE processListItems(_, _, _, _)
RECURSIVE listChildren(_, _, _, _, _)
RECURSIVE listItems(_, _, _, _, _)

\* listItem.children.forEach((child) => { ... })
listChildren(gen, bad, kids, level, acc) ==
  IF Len(kids) = 0 THEN Returned(acc)
  ELSE LET child == Head(kids)
           r == IF child.type = "list"
                THEN processListItems(gen, bad, child, level + 1)
                ELSE LET runs == processNode(gen, bad, child, NoStyle)
                     IN  IF runs.threw THEN Thrown
                         ELSE IF child.type \in {"paragraph", "text"}
                                   \/ Len(runs.value) > 0
                         THEN Returned(<<Paragraph(runs.value, "bullet", level)>>)
                         ELSE Returned(<<>>)
       IN  IF r.threw THEN Thrown
           ELSE listChildren(gen, bad, Tail(kids), level, acc \o r.value)

\* node.children.forEach((listItem) => { ... })
listItems(gen, bad, items, level, acc) ==
  IF Len(items) = 0 THEN Returned(acc)
  ELSE LET r == listChildren(gen, bad, Head(items).children, level, <<>>)
       IN  IF r.threw THEN Thrown
           ELSE listItems(gen, bad, Tail(items), level, acc \o r.value)

processListItems(gen, bad, node, level) ==
  listItems(gen, bad, node.children, level, <<>>)

\* HeadingLevel.HEADING_1 unless the depth is 2..6
headingLevel(depth) == IF depth \in 2..6 THEN depth ELSE 1

\* the block math branch of createDocxFromMarkdown, in either generation
blockMath(gen, bad, node) ==
  IF gen = "components"
  THEN LET r == latexToMathComponents(node.value, TRUE, bad)
       IN  IF r.threw THEN Thrown
           ELSE Returned(<<Paragraph(<<MathOf(r.value)>>, "center", 0)>>)
  ELSE LET result == convertLatexToSvg(node.value, FALSE, bad)
       IN  IF ~result.null
           THEN Returned(<<Paragraph(<<ImageRun(result.svg)>>, "center", 0)>>)
           ELSE Returned(<<Paragraph(
                  <<TextRun(<<"$$", node.value, "$$">>, NoStyle, "red")>>,
                  "plain", 0)>>)

\* one iteration of the loop over the top-level nodes: the paragraphs it
\* pushes, or the exception that leaves it
convertBlock(gen, bad, node) ==
  IF node.type = "paragraph"
  THEN LET runs == processNode(gen, bad, node, NoStyle)
       IN  IF runs.threw THEN Thrown
           ELSE Returned(<<Paragraph(runs.value, "plain", 0)>>)
  ELSE IF node.type = "math" THEN blockMath(gen, bad, node)
  ELSE IF node.type = "heading"
  THEN LET runs == processNode(gen, bad, node, NoStyle)
       IN  IF runs.threw THEN Thrown
           ELSE Returned(<<Paragraph(runs.value, "heading",
                                     headingLevel(node.depth))>>)
  ELSE IF node.type = "list" THEN processListItems(gen, bad, node, 0)
  ELSE Returned(<<>>)

\* ------------------------------------------------------------------------
\* The markdown documents handed to createDocxFromMarkdown
\* ------------------------------------------------------------------------
MdText == MdNode("text", "t", 0, <<>>)
MdInline(value) == MdNode("inlineMath", value, 0, <<>>)
MdPara(kids) == MdNode("paragraph", "", 0, kids)
MdBlockMath(value) == MdNode("math", value, 0, <<>>)
MdItem(kids) == MdNode("listItem", "", 0, kids)
MdList(items) == MdNode("list", "", 0, items)

Blocks ==
  {MdPara(<<MdText>>),
   MdPara(<<MdInline("a")>>),
   MdPara(<<MdText, MdInline("b")>>),
   MdPara(<<MdNode("strong", "", 0, <<MdInline("a"), MdText>>)>>),
   MdPara(<<MdNode("emphasis", "", 0, <<MdText>>),
            MdNode("link", "", 0, <<MdText>>)>>),
   MdBlockMath("a"),
   MdBlockMath("b"),
   MdNode("heading", "", 2, <<MdText>>),
   MdNode("heading", "", 1, <<MdInline("b")>>),
   MdList(<<MdItem(<<MdPara(<<MdText>>)>>),
            MdItem(<<MdPara(<<MdInline("a")>>),
                     MdList(<<MdItem(<<MdPara(<<MdText>>)>>)>>)>>)>>),
   MdList(<<MdItem(<<MdNode("code", "c", 0, <<>>), MdText>>)>>),
   MdNode("thematicBreak", "", 0, <<>>)}

RECURSIVE Documents(_)
\* the documents of at most k top-level blocks
Documents(k) ==
  IF k = 0 THEN {<<>>}
  ELSE LET shorter == Documents(k - 1)
       IN  shorter \cup {Append(d, b) : d \in shorter, b \in Blocks}

\* ------------------------------------------------------------------------
\* createDocxFromMarkdown as a state machine: one action per top-level node
\* ------------------------------------------------------------------------
DocStart ==
  /\ ast \in Documents(MaxBlocks)
  /\ generator \in Generators
  /\ throwsOn \in SUBSET LatexValues
  /\ docChildren = <<>>
  /\ blockIdx = 0
  /\ dpc = "loop"

InitDoc == ParserIdle /\ VisitorIdle /\ IngestIdle /\ DocStart /\ CallsIdle /\ PageIdle

\* the loop body on a node of one of the given types: push its paragraphs
\* and go on, or leave createDocxFromMarkdown with the exception
DocBlock(types) ==
  /\ dpc = "loop"
  /\ blockIdx < Len(ast)
  /\ ast[blockIdx + 1].type \in types
  /\ LET r == convertBlock(generator, throwsOn, ast[blockIdx + 1]) IN
       IF r.threw
       THEN dpc' = "threw" /\ UNCHANGED <<docChildren, blockIdx>>
       ELSE /\ docChildren' = docChildren \o r.value
            /\ blockIdx' = blockIdx + 1
            /\ dpc' = dpc
  /\ UNCHANGED <<ast, generator, throwsOn, exceptDoc>>

DocParagraph == DocBlock({"paragraph"})
DocMath == DocBlock({"math"})
DocHeading == DocBlock({"heading"})
DocList == DocBlock({"list"})

\* a node of no handled type contributes nothing
DocOther ==
  /\ dpc = "loop"
  /\ blockIdx < Len(ast)
  /\ ast[blockIdx + 1].type \notin {"paragraph", "math", "heading", "list"}
  /\ blockIdx' = blockIdx + 1
  /\ UNCHANGED <<ast, generator, throwsOn, docChildren, dpc, exceptDoc>>

\* new Document({ sections: [{ children }] }), Packer.toBuffer, return
DocReturn ==
  /\ dpc = "loop"
  /\ blockIdx >= Len(ast)
  /\ dpc' = "done"
  /\ UNCHANGED <<ast, generator, throwsOn, docChildren, blockIdx, exceptDoc>>

NextDoc ==
  DocParagraph \/ DocMath \/ DocHeading \/ DocList \/ DocOther \/ DocReturn

SpecDoc == InitDoc /\ [][NextDoc]_vars

\* ------------------------------------------------------------------------
\* Claims about createDocxFromMarkdown
\* ------------------------------------------------------------------------
RECURSIVE FragmentsOf(_)
\* the math fragments (inline and block) of a node, at any depth
FragmentsOf(node) ==
  (IF node.type \in {"inlineMath", "math"} THEN {node.value} ELSE {})
    \cup UNION {FragmentsOf(node.children[k]) : k \in 1..Len(node.children)}

\* the paragraphs a block gives when no fragment fails
ConvertedNormally(node) == convertBlock(generator, {}, node).value

RECURSIVE OffsetOf(_)
\* the number of paragraphs the first k blocks give
OffsetOf(k) ==
  IF k = 0 THEN 0 ELSE OffsetOf(k - 1) + Len(ConvertedNormally(ast[k]))

\* the paragraphs of the document that stand for block k
ParagraphsOf(k) == SubSeq(docChildren, OffsetOf(k - 1) + 1, OffsetOf(k))

\* a run that is marked as a fallback and holds the raw source text
IsFallbackFor(run, value) ==
  /\ run.class = "TextRun"
  /\ run.color = "red"
  /\ \E j \in 1..Len(run.text) : run.text[j] = value

\* C11: a math fragment whose conversion throws never aborts the document:
\* createDocxFromMarkdown still returns, the paragraphs of the block that
\* holds the fragment carry a marked fallback with the raw source text, and
\* every block without a failing fragment is converted normally.
C11_FailedFragmentFallsBack ==
  /\ dpc # "threw"
  /\ dpc = "done" =>
       /\ Len(docChildren) = OffsetOf(Len(ast))
       /\ \A k \in 1..Len(ast) :
            IF FragmentsOf(ast[k]) \cap throwsOn = {}
            THEN ParagraphsOf(k) = ConvertedNormally(ast[k])
            ELSE \A value \in FragmentsOf(ast[k]) \cap throwsOn :
                   \E q \in 1..Len(ParagraphsOf(k)) :
                     \E r \in 1..Len(ParagraphsOf(k)[q].children) :
                       IsFallbackFor(ParagraphsOf(k)[q].children[r], value)

\* ========================================================================
\* latexToWordLinear: LaTeX string -> Word linear-format string
\* ========================================================================

\* what `result += latex[cursor]` appends: the character, or the text of
\* undefined when the cursor is past the end
Appended(s, c) ==
  IF c < Len(s) THEN <<At(s, c)>>
  ELSE <<"u", "n", "d", "e", "f", "i", "n", "e", "d">>

\* a consumed piece of text together with the cursor after it
Took(text, c) == [text |-> text, cursor |-> c]

RECURSIVE scanDepth(_, _, _, _, _)
\* while (cursor < latex.length && depth > 0) { depth++ / depth-- ; cursor++ }
scanDepth(s, c, depth, open, close) ==
  IF c < Len(s) /\ depth > 0
  THEN scanDepth(s, c + 1,
                 IF At(s, c) = open THEN depth + 1
                 ELSE IF At(s, c) = close THEN depth - 1 ELSE depth,
                 open, close)
  ELSE c

RECURSIVE latexToWordLinear(_)
RECURSIVE linearLoop(_, _, _)

\* the { branch of consumeGroup, the depth scan having stopped at end:
\* latexToWordLinear(latex.slice(start, cursor - 1))
consumeBraced(s, c, end) ==
  Took(latexToWordLinear(slice(s, c + 1, end - 1)), end)

\* consumeGroup after its skipWhitespace()
consumeAt(s, c) ==
  IF c >= Len(s) THEN Took(<<>>, c)
  ELSE IF At(s, c) = "{"
  THEN consumeBraced(s, c, scanDepth(s, c + 1, 1, "{", "}"))
  ELSE IF At(s, c) = "\\"
  THEN Took(slice(s, c, scanLetters(s, c + 1)), scanLetters(s, c + 1))
  ELSE Took(<<At(s, c)>>, c + 1)

\* consumeGroup: the next {...} group, converted, or a single token
consumeGroup(s, c0) == consumeAt(s, skipWhitespace(s, c0))

\* result += `(${numerator})/(${denominator})`
fracOf(numerator, denominator) ==
  Took(<<"(">> \o numerator.text \o <<")", "/", "(">>
         \o denominator.text \o <<")">>, denominator.cursor)

\* const denominator = consumeGroup(), from where the numerator ended
fracAfter(s, numerator) == fracOf(numerator, consumeGroup(s, numerator.cursor))

\* the \frac branch
linearFrac(s, c) == fracAfter(s, consumeGroup(s, c))

\* result += `\\sqrt(${body})`
sqrtOf(body) == Took(SQRT \o <<"(">> \o body.text \o <<")">>, body.cursor)

\* result += `\\sqrt(${rootDegree}&${body})`
sqrtDegreeOf(rootDegree, body) ==
  Took(SQRT \o <<"(">> \o rootDegree \o <<"&">> \o body.text \o <<")">>,
       body.cursor)

\* the [ branch of \sqrt, the depth scan having stopped at end
sqrtDegree(s, c, end) ==
  sqrtDegreeOf(slice(s, c + 1, end - 1), consumeGroup(s, end))

\* the \sqrt branch after its skipWhitespace()
sqrtAt(s, c) ==
  IF At(s, c) = "[" THEN sqrtDegree(s, c, scanDepth(s, c + 1, 1, "[", "]"))
  ELSE sqrtOf(consumeGroup(s, c))

\* the \sqrt branch
linearSqrt(s, c0) == sqrtAt(s, skipWhitespace(s, c0))

\* result += latex[cursor++]
delimiterAt(s, c) == Took(Appended(s, c), c + 1)

\* the \left and \right branches
linearDelimiter(s, c0) == delimiterAt(s, skipWhitespace(s, c0))

\* result += `"${text}"`
textOf(text) == Took(<<"\"">> \o text.text \o <<"\"">>, text.cursor)

\* the \text branch
linearText(s, c) == textOf(consumeGroup(s, c))

\* the dispatch on the command name, the cursor standing after it at c
commandOf(s, command, c) ==
  IF command = FRAC THEN linearFrac(s, c)
  ELSE IF command = SQRT THEN linearSqrt(s, c)
  ELSE IF command \in {LEFT, RIGHT} THEN linearDelimiter(s, c)
  ELSE IF command = TEXT THEN linearText(s, c)
  ELSE IF command \in {DISPLAYSTYLE, LIMITS, NOLIMITS} THEN Took(<<>>, c)
  ELSE Took(command \o <<" ">>, c)

\* const command = latex.slice(start, cursor)
commandEnd(s, start, c) == commandOf(s, slice(s, start, c), c)

\* char === "\\"
linearCommand(s, start) == commandEnd(s, start, scanLetters(s, start + 1))

\* result += `${op}(${arg})`
scriptOf(op, arg) == Took(<<op, "(">> \o arg.text \o <<")">>, arg.cursor)

\* char === "^" || char === "_"
linearScript(s, c) == scriptOf(At(s, c), consumeGroup(s, c + 1))

\* one iteration of the top-level while loop: what it appends to result
\* and where it leaves the cursor
linearStep(s, c) ==
  IF At(s, c) = "\\" THEN linearCommand(s, c)
  ELSE IF At(s, c) = "{" \/ At(s, c) = "}" THEN Took(<<>>, c + 1)
  ELSE IF At(s, c) = "^" \/ At(s, c) = "_" THEN linearScript(s, c)
  ELSE Took(<<At(s, c)>>, c + 1)

\* the rest of the loop after an iteration that took r
linearAppend(s, acc, r) == linearLoop(s, r.cursor, acc \o r.text)

\* while (cursor < latex.length) { ... }
linearLoop(s, c, acc) ==
  IF c < Len(s) THEN linearAppend(s, acc, linearStep(s, c)) ELSE acc

\* result.replace(/\s+/g, " ").trim()
linearCleanup(result) == trim(collapseSpaces(result))

latexToWordLinear(s) == linearCleanup(linearLoop(s, 0, <<>>))

\* ========================================================================
\* Two conversion calls whose steps interleave
\* ========================================================================
\* Each invocation of parseLatexToDocx / latexToWordLinear runs
\* `let cursor = 0` and creates its own results: the state of a call lives
\* in the closure of that invocation.
CallIds == {1, 2}
Converters == {"parseLatexToDocx", "latexToWordLinear"}

CallInputs ==
  {<<"x", "^", "2">>,
   <<"{", "x", "}", "y">>,
   FRAC \o <<"{", "a", "}", "{", "b", "}">>,
   SQRT \o <<"[", "3", "]", "{", "x", "}">>}

\* the closure of a call that has just been entered
Entered(fn, s) ==
  [fn |-> fn, latex |-> s, cursor |-> 0, results |-> <<>>,
   finalResults |-> <<>>, i |-> 0, pc |-> "parse"]

\* the closure with a cursor that belongs to the module and not to the
\* call: every call reads the cursor of the first one
closureSharedCursor(cs, c) == [cs[c] EXCEPT !.cursor = cs[1].cursor]

\* the closure in which the steps of call c run
closureOf(cs, c) == cs[c]

\* the next step of a call, from its own closure alone
callStep(st) ==
  IF st.fn = "parseLatexToDocx"
  THEN IF st.pc = "parse" /\ st.cursor < Len(st.latex)
       THEN LET r == parseNext(st.latex, st.cursor)
            IN  [st EXCEPT !.results = st.results \o r.nodes,
                           !.cursor = r.cursor]
       ELSE IF st.pc = "parse" THEN [st EXCEPT !.pc = "post"]
       ELSE IF st.pc = "post" /\ st.i < Len(st.results)
       THEN [st EXCEPT !.finalResults =
                          postProcessOne(st.finalResults, st.results[st.i + 1]),
                       !.i = st.i + 1]
       ELSE [st EXCEPT !.pc = "done"]
  ELSE IF st.pc = "parse" /\ st.cursor < Len(st.latex)
       THEN LET r == linearStep(st.latex, st.cursor)
            IN  [st EXCEPT !.results = st.results \o r.text,
                           !.cursor = r.cursor]
       ELSE [st EXCEPT !.finalResults = linearCleanup(st.results),
                       !.pc = "done"]

CallsStart ==
  calls \in [CallIds -> {Entered(fn, s) : fn \in Converters, s \in CallInputs}]

InitCalls == ParserIdle /\ VisitorIdle /\ IngestIdle /\ DocIdle /\ CallsStart /\ PageIdle

\* call c takes its next step
Advance(c) ==
  /\ calls' = [calls EXCEPT ![c] = callStep(closureOf(calls, c))]
  /\ UNCHANGED exceptCalls

\* one iteration of the top-level loop of parseLatexToDocx
CallParseStep ==
  \E c \in CallIds :
    /\ calls[c].fn = "parseLatexToDocx" /\ calls[c].pc = "parse"
    /\ calls[c].cursor < Len(calls[c].latex)
    /\ Advance(c)

CallParseEnd ==
  \E c \in CallIds :
    /\ calls[c].fn = "parseLatexToDocx" /\ calls[c].pc = "parse"
    /\ calls[c].cursor >= Len(calls[c].latex)
    /\ Advance(c)

\* one iteration of the post-process loop
CallPostStep ==
  \E c \in CallIds :
    /\ calls[c].fn = "parseLatexToDocx" /\ calls[c].pc = "post"
    /\ calls[c].i < Len(calls[c].results)
    /\ Advance(c)

CallReturn ==
  \E c \in CallIds :
    /\ calls[c].fn = "parseLatexToDocx" /\ calls[c].pc = "post"
    /\ calls[c].i >= Len(calls[c].results)
    /\ Advance(c)

\* one iteration of the top-level loop of latexToWordLinear
CallLinearStep ==
  \E c \in CallIds :
    /\ calls[c].fn = "latexToWordLinear" /\ calls[c].pc = "parse"
    /\ calls[c].cursor < Len(calls[c].latex)
    /\ Advance(c)

\* the final cleanup and return of latexToWordLinear
CallLinearReturn ==
  \E c \in CallIds :
    /\ calls[c].fn = "latexToWordLinear" /\ calls[c].pc = "parse"
    /\ calls[c].cursor >= Len(calls[c].latex)
    /\ Advance(c)

NextCalls ==
  \/ CallParseStep \/ CallParseEnd \/ CallPostStep \/ CallReturn
  \/ CallLinearStep \/ CallLinearReturn

SpecCalls == InitCalls /\ [][NextCalls]_vars

\* ------------------------------------------------------------------------
\* Claims about interleaved calls
\* ------------------------------------------------------------------------
RECURSIVE AloneFrom(_)
\* the states a call goes through when it runs alone
AloneFrom(st) == IF st.pc = "done" THEN {st} ELSE {st} \cup AloneFrom(callStep(st))

\* the result a call returns when it runs alone
ResultAlone(fn, s) ==
  IF fn = "parseLatexToDocx" THEN parseLatexToDocx(s) ELSE latexToWordLinear(s)

\* C12: conversion calls share no mutable state: under every interleaving
\* of the steps of two calls, each call is at every moment in a state of its
\* run alone (its cursor and partial result are what its own steps made
\* them) and it returns the result it returns when run alone.
C12_CallsShareNoState ==
  \A c \in CallIds :
    /\ calls[c] \in AloneFrom(Entered(calls[c].fn, calls[c].latex))
    /\ calls[c].pc = "done" =>
         calls[c].finalResults = ResultAlone(calls[c].fn, calls[c].latex)

\* both calls are under way, each in the middle of its input, and differ
C12_Witness ==
  /\ calls[1].fn = "parseLatexToDocx" /\ calls[1].pc = "parse"
  /\ calls[1].latex = <<"{", "x", "}", "y">> /\ calls[1].cursor = 3
  /\ calls[2].fn = "latexToWordLinear" /\ calls[2].pc = "parse"
  /\ calls[2].latex = <<"x", "^", "2">> /\ calls[2].cursor = 1

\* ========================================================================
\* Recursion depth of parseLatexToDocx
\* ========================================================================
Max(a, b) == IF a >= b THEN a ELSE b

RECURSIVE groupDepthNext(_, _)
RECURSIVE groupDepthGroup(_, _)
RECURSIVE groupDepthLoop(_, _, _)

\* the deepest nesting of parseGroup frames inside the iterations of a
\* `while (... latex[cursor] !== stop) parseNext()` loop started at c
groupDepthLoop(s, c, stop) ==
  IF c < Len(s) /\ At(s, c) # stop
  THEN Max(groupDepthNext(s, c), groupDepthLoop(s, parseNext(s, c).cursor, stop))
  ELSE 0

\* the number of nested parseGroup frames a call of parseGroup at c0
\* reaches, itself included
groupDepthGroup(s, c0) ==
  LET c == skipWhitespace(s, c0) IN
  IF c >= Len(s) THEN 1
  ELSE IF At(s, c) = "{" THEN 1 + groupDepthLoop(s, c + 1, "}")
  ELSE 1 + groupDepthNext(s, c)

\* the number of nested parseGroup frames a call of parseNext at c0 reaches
groupDepthNext(s, c0) ==
  LET c == skipWhitespace(s, c0) IN
  IF c >= Len(s) THEN 0
  ELSE IF At(s, c) = "\\"
  THEN LET e == scanLetters(s, c + 1)
           command == slice(s, c, e)
       IN  IF command = FRAC
           THEN Max(groupDepthGroup(s, e),
                    groupDepthGroup(s, parseGroup(s, e).cursor))
           ELSE IF command = SQRT
           THEN LET b == skipWhitespace(s, e) IN
                IF At(s, b) = "["
                THEN Max(groupDepthLoop(s, b + 1, "]"),
                         groupDepthGroup(s, degreeLoop(s, b + 1, <<>>).cursor + 1))
                ELSE groupDepthGroup(s, b)
           ELSE 0
  ELSE IF At(s, c) \in {"^", "_"} THEN groupDepthGroup(s, c + 1)
  ELSE IF At(s, c) = "{" THEN groupDepthGroup(s, c)
  ELSE 0

RECURSIVE groupDepthTop(_, _)
\* over the iterations of the top-level loop
groupDepthTop(s, c) ==
  IF c < Len(s)
  THEN Max(groupDepthNext(s, c), groupDepthTop(s, parseNext(s, c).cursor))
  ELSE 0

\* the deepest nesting of parseGroup frames parseLatexToDocx(s) reaches
groupDepth(s) == groupDepthTop(s, 0)

\* C13: nesting depth is bounded: some fixed depth D, here any D below the
\* MaxTok levels the inputs can nest, is never exceeded by the parser's
\* recursion, every input nested deeper being stopped with an error
\* instead of being parsed.
C13_NestingDepthBounded ==
  pc \in {"post", "done"} => groupDepth(latex) < MaxTok

\* ========================================================================
\* Claims about the serializer's wrappers, unhandled kinds and arity
\* ========================================================================
RECURSIVE NodesOf(_)
\* a node and all its descendants
NodesOf(node) ==
  {node} \cup UNION {NodesOf(node.childNodes[k]) : k \in 1..Len(node.childNodes)}

\* the wrapper of each construct and its required sub-wrappers, in order
WrapperOf(kind) ==
  IF kind = "mfrac" THEN "f"
  ELSE IF kind = "msup" THEN "sSup"
  ELSE IF kind = "msub" THEN "sSub" ELSE "sSubSup"

SubWrappersOf(kind) ==
  IF kind = "mfrac" THEN <<"num", "den">>
  ELSE IF kind = "msup" THEN <<"e", "sup">>
  ELSE IF kind = "msub" THEN <<"e", "sub">> ELSE <<"e", "sub", "sup">>

OpenTag(name) == "<m:" \o name \o ">"
CloseTag(name) == "</m:" \o name \o ">"

RECURSIVE WrappedChildren(_, _, _)
\* sub-wrapper k around the emission of child k, for k = j .. last
WrappedChildren(node, names, j) ==
  IF j > Len(names) THEN <<>>
  ELSE <<OpenTag(names[j])>> \o visitNode(node.childNodes[j])
         \o <<CloseTag(names[j])>> \o WrappedChildren(node, names, j + 1)

FixedArityKinds == {"mfrac", "msup", "msub", "msubsup"}

\* C14: fixed arity on output: every fraction, superscript, subscript and
\* sub-superscript node is emitted as its wrapper holding all of its
\* required sub-wrappers, each once and in the fixed order, each around the
\* emission of the corresponding child, also when that emission is empty.
C14_FixedArityWrappers ==
  vpc \in {"done", "threw"} =>
    /\ vpc = "done"
    /\ \A node \in NodesOf(mml) :
         node.kind \in FixedArityKinds =>
           visitNode(node) =
             <<OpenTag(WrapperOf(node.kind))>>
               \o WrappedChildren(node, SubWrappersOf(node.kind), 1)
               \o <<CloseTag(WrapperOf(node.kind))>>
    /\ \A name \in {"num", "den"} :
         CountPiece(markup, OpenTag(name)) = KindsIn(<<mml>>, "mfrac")
    /\ CountPiece(markup, "<m:e>")
         = KindsIn(<<mml>>, "msup") + KindsIn(<<mml>>, "msub")
             + KindsIn(<<mml>>, "msubsup")
    /\ CountPiece(markup, "<m:sup>")
         = KindsIn(<<mml>>, "msup") + KindsIn(<<mml>>, "msubsup")
    /\ CountPiece(markup, "<m:sub>")
         = KindsIn(<<mml>>, "msub") + KindsIn(<<mml>>, "msubsup")

\* a sub-superscript whose three children all emit nothing still has its
\* three sub-wrappers, empty and in order
C14_Witness ==
  /\ vpc = "done"
  /\ mml = MmlNode("math",
             <<MmlNode("msubsup", <<MmlNode("mspace", <<>>),
                                    MmlNode("mrow", <<>>),
                                    MmlNode("mspace", <<>>)>>)>>)
  /\ markup = <<OMathOpen, "<m:sSubSup>", "<m:e>", "</m:e>", "<m:sub>",
                "</m:sub>", "<m:sup>", "</m:sup>", "</m:sSubSup>",
                "</m:oMath>">>

\* the kinds visitNode finds a handler for
HandledKinds ==
  {"math", "mfrac", "msqrt", "mroot", "msup", "msub", "msubsup", "mi", "mn",
   "mo", "mtext", "mspace", "mrow", "mstyle", "munderover", "munder", "mover"}

\* a occurs in b as a run of consecutive pieces
OccursIn(a, b) ==
  \E k \in 0..(Len(b) - Len(a)) : SubSeq(b, k + 1, k + Len(a)) = a

\* C15: for a node whose kind has no handler, visitNode returns the
\* concatenation, in child order, of visitNode of each child; the emission
\* of every descendant that has a handler occurs in it, and every token
\* element under it with a handler contributes its run.
C15_UnhandledKindConcatenates ==
  vpc \in {"done", "threw"} =>
    /\ vpc = "done"
    /\ \A node \in NodesOf(mml) :
         node.kind \notin HandledKinds =>
           /\ visitNode(node) = visitAll(node.childNodes)
           /\ \A d \in NodesOf(node) :
                d.kind \in HandledKinds => OccursIn(visitNode(d), visitNode(node))
           /\ CountPiece(visitNode(node), "<m:r>")
                = (KindsIn(<<node>>, "mn") + KindsIn(<<node>>, "mi")
                                        + KindsIn(<<node>>, "mo") + KindsIn(<<node>>, "mtext"))

\* an unhandled container holding a number and a fraction emits both, in
\* child order
C15_Witness ==
  /\ vpc = "done"
  /\ mml = MmlNode("math",
             <<MmlNode("mpadded",
                 <<Token("mn", "1"),
                   MmlNode("mfrac", <<Token("mn", "1"), Token("mn", "2")>>)>>)>>)
  /\ PieceIndex(markup, "<m:r>", 1) = 2
  /\ PieceIndex(markup, "<m:f>", 1) = 7

\* C16: serializing a fraction whose number of children is not exactly
\* two fails with an error: no markup is returned for it.
C16_MalformedFractionFails ==
  vpc \in {"done", "threw"} =>
    ((\E node \in NodesOf(mml) :
        node.kind = "mfrac" /\ Len(node.childNodes) # 2)
       => vpc = "threw")

\* ------------------------------------------------------------------------
\* Claims about brace groups and pending script markers
\* ------------------------------------------------------------------------
\* the 0-based positions of the opening braces of s
OpenBraces(s) == {p \in 0..(Len(s) - 1) : At(s, p) = "{"}

\* the nodes parsed from the characters strictly between positions open
\* and close of s, taken on their own
ParsedBetween(s, open, close) == parseLoop(slice(s, open + 1, close), 0, <<>>)

\* C17: on an input with balanced braces, the children of a brace group
\* are exactly the nodes parsed from the characters strictly between its
\* opening brace and the matching closing brace, and parsing resumes just
\* after that closing brace: no inner construct consumes the closing
\* brace and no later character becomes a child of the group.
C17_GroupEndsAtMatchingBrace ==
  (pc = "done" /\ Balanced(latex)) =>
    \A open \in OpenBraces(latex) :
      LET close == MatchClose(latex, open)
          group == parseGroup(latex, open)
      IN  /\ group.nodes = ParsedBetween(latex, open, close)
          /\ group.cursor = close + 1

RECURSIVE MarkersIn(_)
\* the number of pending script markers at any depth of a node list
MarkersInNode(n) ==
  (IF "type" \in DOMAIN n THEN 1 ELSE 0)
  + (LET F == {"children", "numerator", "denominator", "degree",
               "superScript", "subScript"} \cap DOMAIN n
         RECURSIVE SumF(_)
         SumF(S) == IF S = {} THEN 0
                    ELSE LET f == CHOOSE f \in S : TRUE
                         IN  MarkersIn(n[f]) + SumF(S \ {f})
     IN  SumF(F))

MarkersIn(list) ==
  IF Len(list) = 0 THEN 0
  ELSE MarkersInNode(Head(list)) + MarkersIn(Tail(list))

\* C18: no pending script marker survives in the returned list, at any
\* depth: a script written inside a group has become a superscript or
\* subscript whose base is the sibling just before it in the same group.
C18_NoMarkerSurvives ==
  pc = "done" =>
    /\ MarkersIn(finalResults) = 0
    /\ latex = SQRT \o <<"{", "x", "^", "2", "}">> =>
         finalResults
           = <<MathRadical(<<MathSuperScript(RunOf(<<"x">>), RunOf(<<"2">>))>>)>>

\* ------------------------------------------------------------------------
\* Claims about the limits and the lookahead of the fold
\* ------------------------------------------------------------------------
\* the step folded the element at idx with its next sibling
FoldAt == ipc = "loop" /\ idx < Len(nodes) /\ idx' = idx + 2

\* the large operator the step emitted
Emitted == out'[Len(out')]

\* the step's operator has this sub-limit / sup-limit; <<>> for none
HasSub(op, limit) ==
  IF limit = <<>> THEN "subScript" \notin DOMAIN op
  ELSE "subScript" \in DOMAIN op /\ op.subScript = limit

HasSup(op, limit) ==
  IF limit = <<>> THEN "superScript" \notin DOMAIN op
  ELSE "superScript" \in DOMAIN op /\ op.superScript = limit

\* C19: when a decorated element is folded into a large operator, its under
\* child becomes the sub-limit and its over child the sup-limit: an
\* under-and-over element gives both, an under-only element a sub-limit and
\* no sup-limit, an over-only element a sup-limit and no sub-limit.
C19_UnderToSubOverToSup ==
  [][ FoldAt =>
        LET node == nodes[idx + 1] IN
        /\ (node.name = "munderover" /\ Len(node.children) = 3) =>
             /\ HasSub(Emitted, toComponents(node.children[2]))
             /\ HasSup(Emitted, toComponents(node.children[3]))
        /\ (node.name = "munder" /\ Len(node.children) = 2) =>
             /\ HasSub(Emitted, toComponents(node.children[2]))
             /\ HasSup(Emitted, <<>>)
        /\ (node.name = "mover" /\ Len(node.children) = 2) =>
             /\ HasSup(Emitted, toComponents(node.children[2]))
             /\ HasSub(Emitted, <<>>) ]_vars

\* C20: the fold looks ahead exactly one sibling.  Every iteration consumes
\* the next one or two siblings, in order, and only appends to the output;
\* an iteration that consumes one sibling appends that sibling's own
\* conversion, an iteration that consumes two appends one large operator
\* whose operand is the second; what has been emitted for the siblings
\* consumed so far is what they give without the siblings after them; the
\* loop returns when every sibling has been consumed.
C20_LookaheadOneSibling ==
  [][ /\ (ipc = "loop" /\ idx < Len(nodes)) =>
           /\ idx' \in {idx + 1, idx + 2}
           /\ idx' <= Len(nodes)
           /\ Len(out') >= Len(out)
           /\ SubSeq(out', 1, Len(out)) = out
           /\ idx' = idx + 1 => out' = out \o nodeToComponents(nodes[idx + 1])
           /\ idx' = idx + 2 =>
                /\ IsDecorated(nodes[idx + 1])
                /\ FoldedStep
           /\ out' = seqToComponents(SubSeq(nodes, 1, idx'))
      /\ ipc' = "done" =>
           /\ idx' = Len(nodes)
           /\ out' = out ]_vars

\* a sum folded with the sibling after it in the middle of a sequence: the
\* sibling before it was converted by itself and nothing is left over
C20_Witness ==
  /\ ipc = "done"
  /\ nodes = <<Elem("mi", <<"x">>), SumUnderOver, Elem("mn", <<"2">>)>>
  /\ idx = 3
  /\ out = <<MathRun(<<"x">>),
             Nary("MathSum", <<MathRun(<<"2">>)>>,
                  <<(<<MathRun(<<"i">>)>>), (<<MathRun(<<"n">>)>>)>>)>>

\* ========================================================================
\* Element conversion: token elements and constructs with missing children
\* ========================================================================
MaxElemSibs == 2

\* token elements as buildMathmlNodes builds them: text with interior and
\* outer whitespace, no text at all, text spread over nested children
TokenElements ==
  {Elem("mi", <<"x">>),
   Elem("mtext", <<"a", " ", " ", "b">>),
   Elem("mtext", <<" ", "a", " ", "b", " ", " ">>),
   MathmlNode("mo", <<>>, <<>>),
   MathmlNode("mn", <<TextLeaf(<<"1">>), Elem("mi", <<" ", "2">>)>>, <<>>),
   MathmlNode("mspace", <<>>, <<>>)}

\* structural elements with all, some or none of the children they need
PartialElements ==
  {MathmlNode("mfrac", <<>>, <<>>),
   MathmlNode("mfrac", <<Elem("mn", <<"1">>)>>, <<>>),
   MathmlNode("mfrac", <<Elem("mn", <<"1">>), Elem("mn", <<"2">>)>>, <<>>),
   MathmlNode("msqrt", <<>>, <<>>),
   MathmlNode("mroot", <<>>, <<>>),
   MathmlNode("mroot", <<Elem("mi", <<"x">>)>>, <<>>),
   MathmlNode("msup", <<Elem("mi", <<"x">>)>>, <<>>),
   MathmlNode("msub", <<>>, <<>>),
   MathmlNode("msubsup", <<Elem("mi", <<"x">>)>>, <<>>),
   MathmlNode("msubsup", <<Elem("mi", <<"x">>), Elem("mn", <<"2">>)>>, <<>>),
   MathmlNode("msubsup",
              <<Elem("mi", <<"x">>), Elem("mn", <<"2">>), Elem("mn", <<"3">>)>>,
              <<>>),
   MathmlNode("mfrac",
              <<MathmlNode("msup", <<Elem("mi", <<"x">>)>>, <<>>)>>, <<>>)}

ConversionElements ==
  TokenElements \cup PartialElements
    \cup {SumUnderOver, Decorated(Elem("mo", <<IntGlyph>>))}

RECURSIVE SeqsOver(_, _)
\* the sequences of at most n elements of E
SeqsOver(E, n) ==
  IF n = 0 THEN {<<>>}
  ELSE LET shorter == SeqsOver(E, n - 1)
       IN  shorter \cup {Append(q, e) : q \in shorter, e \in E}

InitIngestElements ==
  /\ ParserIdle /\ VisitorIdle /\ DocIdle /\ CallsIdle /\ PageIdle
  /\ nodes \in SeqsOver(ConversionElements, MaxElemSibs)
  /\ idx = 0
  /\ out = <<>>
  /\ ipc = "loop"

SpecIngestElements == InitIngestElements /\ [][NextIngest]_vars

\* ------------------------------------------------------------------------
\* Claims about token elements
\* ------------------------------------------------------------------------
RECURSIVE DescendantText(_)
RECURSIVE DescendantTexts(_)
\* the text nodes below an element, concatenated in document order
DescendantText(node) ==
  IF node.name = "#text" THEN node.text ELSE DescendantTexts(node.children)

DescendantTexts(list) ==
  IF Len(list) = 0 THEN <<>>
  ELSE DescendantText(Head(list)) \o DescendantTexts(Tail(list))

\* the length of the word a text starts with (the text starts with a
\* character that is not whitespace)
WordEnd(s) ==
  CHOOSE k \in 1..Len(s) :
    /\ \A j \in 1..k : ~IsSpace(s[j])
    /\ k = Len(s) \/ IsSpace(s[k + 1])

RECURSIVE Words(_)
\* the maximal whitespace-free pieces of a text, in order
Words(s) ==
  IF Len(s) = 0 THEN <<>>
  ELSE IF IsSpace(Head(s)) THEN Words(Tail(s))
  ELSE <<SubSeq(s, 1, WordEnd(s))>> \o Words(SubSeq(s, WordEnd(s) + 1, Len(s)))

RECURSIVE Spaced(_)
\* words joined by single spaces
Spaced(ws) ==
  IF Len(ws) = 0 THEN <<>>
  ELSE IF Len(ws) = 1 THEN ws[1]
  ELSE ws[1] \o <<" ">> \o Spaced(Tail(ws))

\* the text a token element stands for
TokenText(node) == Spaced(Words(DescendantText(node)))

\* the loop stands at an element of one of the given names
AtElement(names) ==
  ipc = "loop" /\ idx < Len(nodes) /\ nodes[idx + 1].name \in names

\* C21: a token element (mi, mn, mo, mtext) is converted to at most one
\* run, whose text is the element's descendant text with every whitespace
\* run replaced by one space and the outer whitespace removed, and to
\* nothing when that text is empty; a spacing element is converted to
\* nothing.
C21_TokenGivesOneNormalisedRun ==
  [][ /\ AtElement({"mi", "mn", "mo", "mtext"}) =>
           /\ idx' = idx + 1
           /\ out' = out \o (IF TokenText(nodes[idx + 1]) = <<>> THEN <<>>
                             ELSE <<MathRun(TokenText(nodes[idx + 1]))>>)
      /\ AtElement({"mspace"}) => (idx' = idx + 1 /\ out' = out) ]_vars

\* a text element with doubled and outer blanks gave one run "a b", a
\* spacing element after it gave nothing
C21_Witness ==
  /\ ipc = "done"
  /\ nodes = <<Elem("mtext", <<" ", "a", " ", "b", " ", " ">>),
               MathmlNode("mspace", <<>>, <<>>)>>
  /\ out = <<MathRun(<<"a", " ", "b">>)>>

\* ------------------------------------------------------------------------
\* Claims about the parts of the constructs built from markup
\* ------------------------------------------------------------------------
\* the parts a component of the given class cannot do without
RequiredParts(class) ==
  IF class = "MathFraction" THEN {"numerator", "denominator"}
  ELSE IF class = "MathRadical" THEN {"children"}
  ELSE IF class = "MathSuperScript" THEN {"children", "superScript"}
  ELSE IF class = "MathSubScript" THEN {"children", "subScript"}
  ELSE IF class = "MathSubSuperScript"
  THEN {"children", "subScript", "superScript"}
  ELSE {}

RECURSIVE AllPartsPresent(_)
\* every component of the list, at any depth, has its required parts, each
\* one a list of components
AllPartsPresent(list) ==
  \A k \in 1..Len(list) :
    /\ "class" \in DOMAIN list[k]
    /\ RequiredParts(list[k].class) \subseteq DOMAIN list[k]
    /\ \A f \in DOMAIN list[k] \ {"class", "text"} : AllPartsPresent(list[k][f])

\* the conversion of the k-th child of an element, the empty list when the
\* element has no such child
ChildPart(node, k) ==
  IF k <= Len(node.children) THEN toComponents(node.children[k]) ELSE <<>>

\* the construct an element of a structural kind stands for
ConstructOf(node) ==
  IF node.name = "mfrac"
  THEN MathFraction(ChildPart(node, 1), ChildPart(node, 2))
  ELSE IF node.name = "mroot"
  THEN MathRadicalDeg(ChildPart(node, 2), ChildPart(node, 1))
  ELSE IF node.name = "msup"
  THEN MathSuperScript(ChildPart(node, 1), ChildPart(node, 2))
  ELSE IF node.name = "msub"
  THEN MathSubScript(ChildPart(node, 1), ChildPart(node, 2))
  ELSE MathSubSuperScript(ChildPart(node, 1), ChildPart(node, 2),
                          ChildPart(node, 3))

\* C26: every fraction, radical, superscript, subscript and sub-superscript
\* built from a markup element has all of its required parts, each one a
\* (possibly empty) list of components, also when the element has fewer
\* children than the construct needs: a part whose child is missing is the
\* empty list, the other parts are the conversions of the children there
\* are.
C26_RequiredPartsPresent ==
  [][ /\ (ipc = "loop" /\ idx < Len(nodes)) => AllPartsPresent(out')
      /\ AtElement({"mfrac", "mroot", "msup", "msub", "msubsup"}) =>
           out' = Append(out, ConstructOf(nodes[idx + 1]))
      /\ AtElement({"msqrt"}) =>
           out' = Append(out, MathRadical(seqToComponents(nodes[idx + 1].children))) ]_vars

\* a fraction element with one child gave a fraction with that numerator
\* and an empty denominator
C26_Witness ==
  /\ ipc = "done"
  /\ nodes = <<MathmlNode("mfrac", <<Elem("mn", <<"1">>)>>, <<>>)>>
  /\ out = <<MathFraction(<<MathRun(<<"1">>)>>, <<>>)>>

\* ------------------------------------------------------------------------
\* Claims about grouping elements on the ingestion path
\* ------------------------------------------------------------------------
GroupingNames == {"mrow", "mstyle"}

\* the sibling list with the siblings from..to put inside one grouping
\* element
WrappedRun(list, from, to, name) ==
  SubSeq(list, 1, from - 1)
    \o <<MathmlNode(name, SubSeq(list, from, to), <<>>)>>
    \o SubSeq(list, to + 1, Len(list))

\* the sibling list with the grouping element at position k replaced by its
\* children
UnwrappedAt(list, k) ==
  SubSeq(list, 1, k - 1) \o list[k].children \o SubSeq(list, k + 1, Len(list))

\* C25: grouping is transparent on the ingestion path: putting any
\* contiguous run of siblings inside a grouping element (mrow, mstyle), or
\* replacing a grouping element by its children, leaves the component
\* sequence returned by seqToComponents unchanged, also around a decorated
\* large operator and its operand.
C25_GroupingTransparent ==
  ipc = "done" =>
    /\ \A from \in 1..Len(nodes) : \A to \in from..Len(nodes) :
         \A name \in GroupingNames :
           seqToComponents(WrappedRun(nodes, from, to, name)) = out
    /\ \A k \in 1..Len(nodes) :
         nodes[k].name \in GroupingNames =>
           seqToComponents(UnwrappedAt(nodes, k)) = out

\* ========================================================================
\* visitTree on radicals and on under/over nodes
\* ========================================================================
\* a math root over one radical: a square root over at most two children,
\* a root with body and degree
RadicalTrees ==
  {MmlNode("math", <<MmlNode("msqrt", f)>>) : f \in SeqsOver(SlotNodes, 2)}
  \cup {MmlNode("math", <<MmlNode("mroot", <<a, b>>)>>) :
          a \in SlotNodes, b \in SlotNodes}

\* a math root over one under-and-over, under-only or over-only node
NaryTrees ==
  {MmlNode("math", <<MmlNode("munderover", <<a, b, c>>)>>) :
     a \in SlotNodes, b \in SlotNodes, c \in SlotNodes}
  \cup {MmlNode("math", <<MmlNode(k, <<a, b>>)>>) :
          k \in {"munder", "mover"}, a \in SlotNodes, b \in SlotNodes}

\* radicals and under/over nodes inside one another
NestedOperatorTrees ==
  {MmlNode("math",
     <<MmlNode("msqrt",
         <<MmlNode("mroot", <<Token("mn", "1"), Token("mn", "2")>>),
           MmlNode("munder", <<Token("mo", "s"), Token("mn", "1")>>)>>)>>),
   MmlNode("math",
     <<MmlNode("mover",
         <<MmlNode("msqrt", <<Token("mn", "1")>>),
           MmlNode("munderover",
             <<Token("mo", "s"), Token("mn", "1"), Token("mn", "2")>>)>>)>>)}

OperatorTrees == RadicalTrees \cup NaryTrees \cup NestedOperatorTrees

InitVisitorOperators ==
  /\ ParserIdle /\ IngestIdle /\ DocIdle /\ CallsIdle /\ PageIdle
  /\ mml \in OperatorTrees /\ markup = <<>> /\ vpc = "start"

SpecVisitorOperators == InitVisitorOperators /\ [][NextVisitor]_vars

\* ------------------------------------------------------------------------
\* Claims about radicals and operators in OmmlVisitor
\* ------------------------------------------------------------------------
DegHide == "<m:degHide m:val=\"on\"/>"
LimLoc == "<m:limLoc m:val=\"undOvr\"/>"
SupHide == "<m:supHide m:val=\"on\"/>"
SubHide == "<m:subHide m:val=\"on\"/>"

\* name-wrapped content
Wrapped(name, content) == <<OpenTag(name)>> \o content \o <<CloseTag(name)>>

\* C22: a radical is emitted as one radical wrapper with exactly one body
\* sub-wrapper; a square root carries the hidden-degree flag and no degree
\* sub-wrapper, its body holding all of its children; a root carries a
\* degree sub-wrapper built from its second child and no flag, its body
\* built from its first child.
C22_RadicalShape ==
  vpc \in {"done", "threw"} =>
    /\ vpc = "done"
    /\ \A node \in NodesOf(mml) :
         /\ node.kind = "msqrt" =>
              visitNode(node) =
                Wrapped("rad", Wrapped("radPr", <<DegHide>>)
                                 \o Wrapped("e", visitAll(node.childNodes)))
         /\ node.kind = "mroot" =>
              visitNode(node) =
                Wrapped("rad", Wrapped("deg", visitNode(node.childNodes[2]))
                                 \o Wrapped("e", visitNode(node.childNodes[1])))
    /\ CountPiece(markup, "<m:rad>")
         = KindsIn(<<mml>>, "msqrt") + KindsIn(<<mml>>, "mroot")
    /\ CountPiece(markup, DegHide) = KindsIn(<<mml>>, "msqrt")
    /\ CountPiece(markup, "<m:deg>") = KindsIn(<<mml>>, "mroot")

\* the root of x with degree 2: the degree wrapper holds 2, the body x
C22_Witness ==
  /\ vpc = "done"
  /\ mml = MmlNode("math",
             <<MmlNode("mroot", <<Token("mn", "1"), Token("mn", "2")>>)>>)
  /\ markup = <<OMathOpen, "<m:rad>", "<m:deg>">> \o createRun("math", "2")
                \o <<"</m:deg>", "<m:e>">> \o createRun("math", "1")
                \o <<"</m:e>", "</m:rad>", "</m:oMath>">>

\* the under and the over child of an under/over node; none when the kind
\* has no such child
UnderOf(node) ==
  IF node.kind \in {"munderover", "munder"} THEN visitNode(node.childNodes[2])
  ELSE <<>>

OverOf(node) ==
  IF node.kind = "munderover" THEN visitNode(node.childNodes[3])
  ELSE IF node.kind = "mover" THEN visitNode(node.childNodes[2])
  ELSE <<>>

HideFlagOf(node) ==
  IF node.kind = "munder" THEN <<SupHide>>
  ELSE IF node.kind = "mover" THEN <<SubHide>> ELSE <<>>

\* C23: every under-and-over, under-only and over-only node is emitted as
\* one operator wrapper holding, in this order, the limit-location flag, a
\* sub wrapper, a sup wrapper and an operand wrapper; the under content is
\* in sub only, the over content in sup only; the limit the node lacks is
\* an empty wrapper, with its hide flag (sup hidden for under-only, sub
\* hidden for over-only).
C23_OperatorShape ==
  vpc \in {"done", "threw"} =>
    /\ vpc = "done"
    /\ \A node \in NodesOf(mml) :
         node.kind \in {"munderover", "munder", "mover"} =>
           visitNode(node) =
             Wrapped("nary",
               Wrapped("naryPr", <<LimLoc>> \o HideFlagOf(node))
                 \o Wrapped("sub", UnderOf(node))
                 \o Wrapped("sup", OverOf(node))
                 \o Wrapped("e", visitNode(node.childNodes[1])))
    /\ CountPiece(markup, "<m:nary>")
         = KindsIn(<<mml>>, "munderover") + KindsIn(<<mml>>, "munder")
             + KindsIn(<<mml>>, "mover")
    /\ CountPiece(markup, LimLoc) = CountPiece(markup, "<m:nary>")
    /\ CountPiece(markup, SupHide) = KindsIn(<<mml>>, "munder")
    /\ CountPiece(markup, SubHide) = KindsIn(<<mml>>, "mover")

\* an over-only node: the sub wrapper is empty and hidden, the over content
\* is in sup
C23_Witness ==
  /\ vpc = "done"
  /\ mml = MmlNode("math",
             <<MmlNode("mover", <<Token("mn", "1"), Token("mn", "2")>>)>>)
  /\ markup = <<OMathOpen, "<m:nary>", "<m:naryPr>", LimLoc, SubHide,
                "</m:naryPr>", "<m:sub>", "</m:sub>", "<m:sup>">>
                \o createRun("math", "2") \o <<"</m:sup>", "<m:e>">>
                \o createRun("math", "1")
                \o <<"</m:e>", "</m:nary>", "</m:oMath>">>

\* ------------------------------------------------------------------------
\* Claims about the recognised commands of the LaTeX front ends
\* ------------------------------------------------------------------------
\* sub occurs in s as a contiguous piece
Contains(s, sub) ==
  \E k \in 1..(Len(s) - Len(sub) + 1) : SubSeq(s, k, k + Len(sub) - 1) = sub

\* C24: \displaystyle and \text are dispatched by both LaTeX front ends and
\* never degraded to literal command text: no run of parseLatexToDocx holds
\* either command name and the output of latexToWordLinear contains
\* neither; \displaystyle contributes nothing to the result.
C24_RecognisedCommandsDispatched ==
  pc = "done" =>
    /\ \A cmd \in {DISPLAYSTYLE, TEXT} :
         /\ CountRuns(finalResults, cmd) = 0
         /\ ~Contains(latexToWordLinear(latex), cmd)
    /\ latex = DISPLAYSTYLE \o <<" ", "x">> =>
         /\ finalResults = RunOf(<<"x">>)
         /\ latexToWordLinear(latex) = <<"x">>

\* ------------------------------------------------------------------------
\* mathmlToDocx: the recursive mapper over { kind, children, text } nodes
\* ------------------------------------------------------------------------
MaxMapSibs == 2

MapNode(kind, children, text) ==
  [kind |-> kind, children |-> children, text |-> text]

\* the text node a token element holds: it has a text and no kind
MapText(text) == MapNode("#text", <<>>, text)

\* a token element: node.children[0].text is its text
MapToken(kind, text) == MapNode(kind, <<MapText(text)>>, <<>>)

MapElem(kind, children) == MapNode(kind, children, <<>>)

RECURSIVE mathmlToDocx(_)
RECURSIVE mapChildren(_)

\* list.map(mathmlToDocx)
mapChildren(list) ==
  IF list = <<>> THEN <<>>
  ELSE <<mathmlToDocx(Head(list))>> \o mapChildren(Tail(list))

mathmlToDocx(node) ==
  CASE node.kind = "math" -> mapChildren(node.children)
    [] node.kind = "mfrac" ->
         MathFraction(mapChildren(node.children[1].children),
                      mapChildren(node.children[2].children))
    [] node.kind = "msqrt" -> MathRadical(mapChildren(node.children))
    [] node.kind = "msup" ->
         MathSuperScript(<<mathmlToDocx(node.children[1])>>,
                         <<mathmlToDocx(node.children[2])>>)
    [] node.kind = "msub" ->
         MathSubScript(<<mathmlToDocx(node.children[1])>>,
                       <<mathmlToDocx(node.children[2])>>)
    [] node.kind \in {"mi", "mn", "mo"} -> MathRun(node.children[1].text)
    [] OTHER -> MathRun(<<>>)

MapTokens ==
  {MapToken("mn", <<"1">>), MapToken("mn", <<"2">>), MapToken("mi", <<"x">>)}

MapRows ==
  {MapElem("mrow", <<t>>) : t \in MapTokens}
    \cup {MapElem("mrow", <<MapToken("mi", <<"x">>), MapToken("mo", <<"+">>),
                            MapToken("mn", <<"1">>)>>)}

MapElements ==
  MapTokens
    \cup {MapElem("mfrac", <<a, b>>) : a \in MapTokens, b \in MapTokens}
    \cup {MapElem("mfrac", <<a, b>>) : a \in MapRows, b \in MapRows}
    \cup {MapElem("mfrac", <<MapToken("mn", <<"1">>), r>>) : r \in MapRows}
    \cup {MapElem("msqrt", <<t>>) : t \in MapTokens}
    \cup {MapElem("msup", <<MapToken("mi", <<"x">>), t>>) : t \in MapTokens}
    \cup {MapElem("msub", <<MapToken("mi", <<"x">>), t>>) : t \in MapTokens}
    \cup MapRows

\* <math> documents of up to n elements
MapperTrees(n) == {MapElem("math", q) : q \in SeqsOver(MapElements, n)}

InitMapper ==
  /\ ParserIdle /\ VisitorIdle /\ IngestIdle /\ DocIdle /\ CallsIdle
  /\ NormalizeIdle /\ ConverterIdle
  /\ mathml \in MapperTrees(MaxMapSibs)
  /\ mapped = <<>>
  /\ mpc = "start"

Map ==
  /\ mpc = "start"
  /\ mapped' = mathmlToDocx(mathml)
  /\ mpc' = "done"
  /\ UNCHANGED <<mathml, normalizeVars, converterVars, exceptPage>>

NextMapper == Map

SpecMapper == InitMapper /\ [][NextMapper]_vars

TokenKinds == {"mi", "mn", "mo"}

\* node is a fraction element whose two children are token elements
TokenFraction(node) ==
  /\ node.kind = "mfrac"
  /\ Len(node.children) = 2
  /\ \A k \in 1..2 : node.children[k].kind \in TokenKinds

HasRun(list, text) == \E k \in 1..Len(list) : list[k] = MathRun(text)

\* C27: a fraction element whose two children are token elements maps to
\* one Fraction whose numerator contains a Run with the first child's text
\* and whose denominator contains a Run with the second child's text; no
\* token text of the fraction is replaced by an empty Run.
C27_TokenFractionKeepsText ==
  mpc = "done" =>
    \A k \in 1..Len(mathml.children) :
      TokenFraction(mathml.children[k]) =>
        LET first == mathml.children[k].children[1].children[1].text
            second == mathml.children[k].children[2].children[1].text
        IN  /\ mapped[k].class = "MathFraction"
            /\ HasRun(mapped[k].numerator, first)
            /\ HasRun(mapped[k].denominator, second)
            /\ ~HasRun(mapped[k].numerator, <<>>)
            /\ ~HasRun(mapped[k].denominator, <<>>)

\* ------------------------------------------------------------------------
\* normalizeLatex: \[ ... \] becomes $$ ... $$, then \( ... \) becomes $ ... $
\* ------------------------------------------------------------------------
MaxPieces == 4

\* the first position from `from` on where the two characters of pat stand,
\* 0 when there is none
RECURSIVE indexFrom(_, _, _)
indexFrom(s, pat, from) ==
  IF from + 1 > Len(s) THEN 0
  ELSE IF SubSeq(s, from, from + 1) = pat THEN from
  ELSE indexFrom(s, pat, from + 1)

\* s.replace(/open([\s\S]*?)close/g, (_, match) => mark + match + mark) from
\* position from on: the leftmost opener that has a closer after it, the
\* lazy body up to the first such closer, then on after the closer
RECURSIVE replaceFrom(_, _, _, _, _)
replaceMatch(s, from, p, q, open, close, mark) ==
  IF p = 0 \/ q = 0 THEN SubSeq(s, from, Len(s))
  ELSE SubSeq(s, from, p - 1) \o mark \o SubSeq(s, p + 2, q - 1) \o mark
         \o replaceFrom(s, q + 2, open, close, mark)

closerFrom(s, p, close) == IF p = 0 THEN 0 ELSE indexFrom(s, close, p + 2)

replaceFrom(s, from, open, close, mark) ==
  replaceMatch(s, from, indexFrom(s, open, from),
               closerFrom(s, indexFrom(s, open, from), close),
               open, close, mark)

replaceBlock(s) ==
  replaceFrom(s, 1, <<"\\", "[">>, <<"\\", "]">>, <<"$", "$">>)

replaceInline(s) == replaceFrom(s, 1, <<"\\", "(">>, <<"\\", ")">>, <<"$">>)

normalizeLatex(s) == replaceInline(replaceBlock(s))

\* the pieces texts are put together from
Pieces ==
  {<<"\\", "[">>, <<"\\", "]">>, <<"\\", "(">>, <<"\\", ")">>, <<"a">>,
   <<"\\">>}

RECURSIVE Flatten(_)
Flatten(q) == IF q = <<>> THEN <<>> ELSE Head(q) \o Flatten(Tail(q))

\* texts of up to n pieces
Texts(n) == {Flatten(q) : q \in SeqsOver(Pieces, n)}

InitNormalize ==
  /\ ParserIdle /\ VisitorIdle /\ IngestIdle /\ DocIdle /\ CallsIdle
  /\ MapperIdle /\ ConverterIdle
  /\ rawText \in Texts(MaxPieces)
  /\ normalized = <<>>
  /\ npc = "start"

Normalize ==
  /\ npc = "start"
  /\ normalized' = normalizeLatex(rawText)
  /\ npc' = "done"
  /\ UNCHANGED <<rawText, mapperVars, converterVars, exceptPage>>

NextNormalize == Normalize

SpecNormalize == InitNormalize /\ [][NextNormalize]_vars

\* C29: normalizeLatex is idempotent: normalizing a normalized text
\* changes nothing, i.e. after one pass no \[ ... \] or \( ... \) pair
\* remains to be rewritten.
C29_NormalizeIdempotent ==
  npc = "done" => normalizeLatex(normalized) = normalized

\* ------------------------------------------------------------------------
\* The Converter component: the text area and the export button
\* ------------------------------------------------------------------------
\* clicks on the export button in one run of the page
MaxClicks == 3

\* the texts typed into the text area
EditorTexts ==
  {<<"a">>, <<"\\", "(", "a", "\\", ")">>, <<"\\", "[", "a", "\\", "]">>}

\* useState(...) of the text area: the demo text
DemoText == <<"$", "a", "$">>

\* one call of handleExport: the await it is suspended at (or the catch or
\* finally block it is about to run) and the normalizedInput of the render
\* whose closure it is
Export(at, markdown) == [at |-> at, markdown |-> markdown]

\* a mapping of the button's attribute that never disables it
disabledNever(flag) == FALSE

\* <button disabled={isExporting}>: React flushes the state set in a click
\* handler before the next event is dispatched, so the attribute follows
\* the state
disabled(flag) == flag

\* inFlight with the call at position k moved to the step `at`
MoveTo(k, at) == [inFlight EXCEPT ![k].at = at]

\* inFlight without the call at position k
Without(k) == SubSeq(inFlight, 1, k - 1) \o SubSeq(inFlight, k + 1, Len(inFlight))

InitConverter ==
  /\ ParserIdle /\ VisitorIdle /\ IngestIdle /\ DocIdle /\ CallsIdle
  /\ MapperIdle /\ NormalizeIdle
  /\ input = DemoText
  /\ isExporting = FALSE
  /\ inFlight = <<>>
  /\ clicks = 0

\* onChange={(e) => setInput(e.target.value)}
SetInput ==
  /\ \E t \in EditorTexts : input' = t /\ input # t
  /\ UNCHANGED <<isExporting, inFlight, clicks, mapperVars, normalizeVars,
                 exceptPage>>

\* a click on the enabled button: handleExport up to its first await
HandleExport ==
  /\ ~disabled(isExporting)
  /\ clicks < MaxClicks
  /\ clicks' = clicks + 1
  /\ isExporting' = TRUE
  /\ inFlight' = Append(inFlight, Export("generateDocx", normalizeLatex(input)))
  /\ UNCHANGED <<input, mapperVars, normalizeVars, exceptPage>>

\* the call at position k, suspended at `from`, goes on to `to`
Continue(k, from, to) ==
  /\ inFlight[k].at = from
  /\ inFlight' = MoveTo(k, to)
  /\ UNCHANGED <<input, isExporting, clicks, mapperVars, normalizeVars,
                 exceptPage>>

\* await generateDocx(normalizedInput) resolves with the base64 data
GenerateDocxResolves(k) == Continue(k, "generateDocx", "fetch")

\* generateDocx rejects: createDocxFromMarkdown threw and the server action
\* threw "Failed to generate DOCX file", or the request failed
GenerateDocxRejects(k) == Continue(k, "generateDocx", "catch")

\* await fetch(data url) resolves
FetchResolves(k) == Continue(k, "fetch", "blob")

FetchRejects(k) == Continue(k, "fetch", "catch")

\* await response.blob() resolves and saveAs returns
SaveAs(k) == Continue(k, "blob", "finally")

\* response.blob() rejects or saveAs throws
SaveFails(k) == Continue(k, "blob", "catch")

\* catch: console.error and alert
Catch(k) == Continue(k, "catch", "finally")

\* finally: setIsExporting(false), the end of the call
Finally(k) ==
  /\ inFlight[k].at = "finally"
  /\ isExporting' = FALSE
  /\ inFlight' = Without(k)
  /\ UNCHANGED <<input, clicks, mapperVars, normalizeVars, exceptPage>>

\* the steps of handleExport after its first await
Settle ==
  \E k \in 1..Len(inFlight) :
    \/ GenerateDocxResolves(k)
    \/ GenerateDocxRejects(k)
    \/ FetchResolves(k)
    \/ FetchRejects(k)
    \/ SaveAs(k)
    \/ SaveFails(k)
    \/ Catch(k)
    \/ Finally(k)

NextConverter == SetInput \/ HandleExport \/ Settle

SpecConverter == InitConverter /\ [][NextConverter]_vars

\* every awaited promise settles and the event loop runs the continuation
SpecConverterFair == SpecConverter /\ WF_vars(Settle)

\* C28: isExporting is true exactly while an export is in flight (it is set
\* before generateDocx is called), at most one export is in flight at a
\* time because the button is disabled while it is true, and after every
\* attempt, whether generateDocx resolves or rejects or the fetch/save step
\* fails, it is eventually set back to false.
C28_ExportingWhileInFlight ==
  /\ [](isExporting <=> inFlight # <<>>)
  /\ [](Len(inFlight) <= 1)
  /\ \A at \in {"generateDocx", "fetch", "blob", "catch", "finally"} :
       (inFlight # <<>> /\ inFlight[1].at = at) ~> ~isExporting

\* two attempts have ended and the flag is back to false
C28_Witness ==
  /\ clicks = 2
  /\ inFlight = <<>>
  /\ ~isExporting

\* ------------------------------------------------------------------------
\* latexToWordLinear on inputs with delimiters, groups and text
\* ------------------------------------------------------------------------
MaxLinearTok == 3

LinearToks ==
  {<<"x">>, <<" ">>, <<"(">>, <<"{">>, <<"}">>, <<"^">>, LEFT, RIGHT, TEXT}

\* inputs of up to n tokens
LinearInputs(n) == {Flatten(q) : q \in SeqsOver(LinearToks, n)}

\* inputs that end in a delimiter command
DelimiterInputs == {LEFT, <<"x">> \o RIGHT, LEFT \o <<"(">>}

\* two calls of latexToWordLinear
InitLinear ==
  /\ ParserIdle /\ VisitorIdle /\ IngestIdle /\ DocIdle /\ PageIdle
  /\ \E s \in LinearInputs(MaxLinearTok), d \in DelimiterInputs :
       calls = <<Entered("latexToWordLinear", s),
                 Entered("latexToWordLinear", d)>>

NextLinear == CallLinearStep \/ CallLinearReturn

SpecLinear == InitLinear /\ [][NextLinear]_vars

\* the characters the transformer inserts
StructuralChars == {"(", ")", "/", "&", "\"", " "}

CharsOf(s) == {s[k] : k \in 1..Len(s)}

\* C30: every character of the output of latexToWordLinear is a character
\* of its input or one of the structural characters ( ) / & " and space,
\* also when \left or \right is the last token of the input.
C30_OutputCharsFromInput ==
  \A c \in CallIds :
    calls[c].pc = "done" =>
      CharsOf(calls[c].finalResults)
        \subseteq (CharsOf(calls[c].latex) \cup StructuralChars)

====
